---- MODULE Spec2Model ----
(***************************************************************************)
(* earth-waves: reconciliation of the source-audio tree, the metadata      *)
(* document tree and the compressed-audio cache, and the static-site       *)
(* generation that publishes them.                                         *)
(*                                                                         *)
(* File names and paths are strings, handled character by character as the *)
(* Go code handles them.  An instant is an integer number of half-seconds  *)
(* since 2000-01-01T00:00:00Z, so that sub-second file times and the       *)
(* whole-second values produced by parsing and formatting are distinct.    *)
(***************************************************************************)
EXTENDS Integers, Sequences, FiniteSets, TLC

VARIABLES wavFS, jsonFS, m4aFS, distFS, listing, pc, last, snap, faults, edits,
          inflight, wavDir

vars == <<wavFS, jsonFS, m4aFS, distFS, listing, pc, last, snap, faults, edits,
          inflight, wavDir>>

(***************************************************************************)
(* Strings                                                                 *)
(***************************************************************************)
Char(s, i) == SubSeq(s, i, i)

HasSuffix(s, suf) ==
    /\ Len(s) >= Len(suf)
    /\ SubSeq(s, Len(s) - Len(suf) + 1, Len(s)) = suf

HasPrefix(s, pre) ==
    /\ Len(s) >= Len(pre)
    /\ SubSeq(s, 1, Len(pre)) = pre

TrimSuffix(s, suf) ==
    IF HasSuffix(s, suf) THEN SubSeq(s, 1, Len(s) - Len(suf)) ELSE s

UpperChars == <<"A", "B", "D", "V", "W">>

LowerChars == <<"a", "b", "d", "v", "w">>

ToLowerChar(c) ==
    IF \E i \in 1..Len(UpperChars) : UpperChars[i] = c
    THEN LowerChars[CHOOSE i \in 1..Len(UpperChars) : UpperChars[i] = c]
    ELSE c

RECURSIVE ToLower(_)
ToLower(s) ==
    IF s = "" THEN "" ELSE ToLowerChar(Head(s)) \o ToLower(Tail(s))

\* strings.ReplaceAll(s, old, "") for a one-character old
RECURSIVE ReplaceAll(_, _)
ReplaceAll(s, old) ==
    IF s = "" THEN ""
    ELSE IF Head(s) = old THEN ReplaceAll(Tail(s), old)
         ELSE Head(s) \o ReplaceAll(Tail(s), old)

\* the position of the last occurrence of the character c in s at or before
\* position i, 0 if none
RECURSIVE LastIndexFrom(_, _, _)
LastIndexFrom(s, c, i) ==
    IF i = 0 THEN 0
    ELSE IF Char(s, i) = c THEN i
    ELSE LastIndexFrom(s, c, i - 1)

LastIndex(s, c) == LastIndexFrom(s, c, Len(s))

(***************************************************************************)
(* path/filepath                                                           *)
(***************************************************************************)
Base(path) == SubSeq(path, LastIndex(path, "/") + 1, Len(path))

Dir(path) ==
    LET i == LastIndex(path, "/")
    IN  IF i = 0 THEN "." ELSE SubSeq(path, 1, i - 1)

\* filepath.Ext scans back from the end of the path to the final dot of the
\* final element; "" if that element has no dot
RECURSIVE ExtFrom(_, _)
ExtFrom(path, i) ==
    IF i = 0 THEN ""
    ELSE IF Char(path, i) = "/" THEN ""
    ELSE IF Char(path, i) = "." THEN SubSeq(path, i, Len(path))
    ELSE ExtFrom(path, i - 1)

Ext(path) == ExtFrom(path, Len(path))

Join(dir, name) == IF dir = "" \/ dir = "." THEN name ELSE dir \o "/" \o name

\* the first element of a relative path and what follows it
FirstElem(path) ==
    IF \E i \in 1..Len(path) : Char(path, i) = "/"
    THEN SubSeq(path, 1, (CHOOSE i \in 1..Len(path) :
                            /\ Char(path, i) = "/"
                            /\ \A j \in 1..(i - 1) : Char(path, j) # "/") - 1)
    ELSE path

RestElems(path) ==
    IF FirstElem(path) = path THEN ""
    ELSE SubSeq(path, Len(FirstElem(path)) + 2, Len(path))

\* byte order of the characters that occur in file names
CharOrder == <<"\r", ".", "/", "0", "1", "2", "3", "4", "5", "6", "7", "8", "9",
               "A", "B", "D", "V", "W", "_",
               "a", "b", "c", "d", "e", "i", "j", "l", "m", "n", "o", "p",
               "s", "t", "u", "v", "w", "x", "y">>

Rank(c) == CHOOSE i \in 1..Len(CharOrder) : CharOrder[i] = c

RECURSIVE StrLess(_, _)
StrLess(a, b) ==
    IF b = "" THEN FALSE
    ELSE IF a = "" THEN TRUE
    ELSE IF Head(a) = Head(b) THEN StrLess(Tail(a), Tail(b))
    ELSE Rank(Head(a)) < Rank(Head(b))

\* filepath.Walk visits the entries of a directory in lexical order of
\* their names and descends into a directory when it reaches it
RECURSIVE WalkLess(_, _)
WalkLess(p, q) ==
    IF FirstElem(p) = FirstElem(q)
    THEN IF RestElems(p) = "" \/ RestElems(q) = "" THEN FALSE
         ELSE WalkLess(RestElems(p), RestElems(q))
    ELSE StrLess(FirstElem(p), FirstElem(q))

RECURSIVE WalkOrder(_)
WalkOrder(S) ==
    IF S = {} THEN << >>
    ELSE LET first == CHOOSE p \in S : \A q \in S \ {p} : WalkLess(p, q)
         IN  <<first>> \o WalkOrder(S \ {first})

(***************************************************************************)
(* Time                                                                    *)
(***************************************************************************)
Digits == <<"0", "1", "2", "3", "4", "5", "6", "7", "8", "9">>

IsDigit(c) == \E i \in 1..10 : Digits[i] = c

DigitVal(c) == (CHOOSE i \in 1..10 : Digits[i] = c) - 1

AllDigits(s) == \A i \in 1..Len(s) : IsDigit(Char(s, i))

RECURSIVE Atoi(_)
Atoi(s) ==
    IF s = "" THEN 0
    ELSE 10 * Atoi(SubSeq(s, 1, Len(s) - 1)) + DigitVal(Char(s, Len(s)))

\* timeRegex alternatives anchored at position i: \d{8}_\d{6} and \d{6}_\d{6}
MatchLongAt(s, i) ==
    /\ i + 14 <= Len(s)
    /\ AllDigits(SubSeq(s, i, i + 7))
    /\ Char(s, i + 8) = "_"
    /\ AllDigits(SubSeq(s, i + 9, i + 14))

MatchShortAt(s, i) ==
    /\ i + 12 <= Len(s)
    /\ AllDigits(SubSeq(s, i, i + 5))
    /\ Char(s, i + 6) = "_"
    /\ AllDigits(SubSeq(s, i + 7, i + 12))

\* the positions where timeRegex matches
MatchStarts(s) == { i \in 1..Len(s) : MatchLongAt(s, i) \/ MatchShortAt(s, i) }

\* the match at the leftmost of the positions starts, the first alternative
\* preferred; "" when there is none
Leftmost(s, starts) ==
    IF starts = {} THEN ""
    ELSE LET i == CHOOSE k \in starts : \A j \in starts : k <= j
         IN  SubSeq(s, i, IF MatchLongAt(s, i) THEN i + 14 ELSE i + 12)

\* timeRegex.FindString
FindString(s) == Leftmost(s, MatchStarts(s))

IsLeap(y) == (y % 4 = 0 /\ y % 100 # 0) \/ y % 400 = 0

DaysIn(m, y) ==
    IF m = 2 THEN (IF IsLeap(y) THEN 29 ELSE 28)
    ELSE IF m \in {4, 6, 9, 11} THEN 30 ELSE 31

RECURSIVE DaysBeforeMonth(_, _)
DaysBeforeMonth(m, y) ==
    IF m = 1 THEN 0 ELSE DaysBeforeMonth(m - 1, y) + DaysIn(m - 1, y)

\* leap years in 1..n
LeapsUpTo(n) == (n \div 4) - (n \div 100) + (n \div 400)

\* the instant y-mo-d h:mi:s UTC, in half-seconds since 2000-01-01T00:00:00Z
Date(y, mo, d, h, mi, s) ==
    LET days == 365 * (y - 2000) + (LeapsUpTo(y - 1) - LeapsUpTo(1999))
                + DaysBeforeMonth(mo, y) + (d - 1)
    IN  2 * (((days * 24 + h) * 60 + mi) * 60 + s)

\* time.Parse range checks on the fields of a layout made of fixed-width numbers
ValidFields(y, mo, d, h, mi, s) ==
    /\ mo \in 1..12
    /\ d >= 1 /\ d <= DaysIn(mo, y)
    /\ h < 24 /\ mi < 60 /\ s < 60

\* a two-digit year: 69..99 is 19yy, 00..68 is 20yy
TwoDigitYear(yy) == IF yy >= 69 THEN 1900 + yy ELSE 2000 + yy

NoTime == [ok |-> FALSE, t |-> 0]

\* time.Parse on the fields of a layout: the instant, or an error when a
\* field is out of range
ParseFields(y, mo, d, h, mi, s) ==
    IF ValidFields(y, mo, d, h, mi, s)
    THEN [ok |-> TRUE, t |-> Date(y, mo, d, h, mi, s)] ELSE NoTime

\* time.Parse("20060102_150405", m) for a 15-character match m
ParseLong(m) ==
    ParseFields(Atoi(SubSeq(m, 1, 4)), Atoi(SubSeq(m, 5, 6)), Atoi(SubSeq(m, 7, 8)),
                Atoi(SubSeq(m, 10, 11)), Atoi(SubSeq(m, 12, 13)), Atoi(SubSeq(m, 14, 15)))

\* time.Parse("060102_150405", m) for a 13-character match m
ParseShort(m) ==
    ParseFields(TwoDigitYear(Atoi(SubSeq(m, 1, 2))), Atoi(SubSeq(m, 3, 4)),
                Atoi(SubSeq(m, 5, 6)), Atoi(SubSeq(m, 8, 9)),
                Atoi(SubSeq(m, 10, 11)), Atoi(SubSeq(m, 12, 13)))

\* the layout is chosen by the length of the match
ParseMatch(match) ==
    IF match = "" THEN NoTime
    ELSE IF Len(match) = 13 THEN ParseShort(match)
    ELSE ParseLong(match)

parseTimeFromFilename(filename) == ParseMatch(FindString(filename))

\* formatting an instant with a layout of whole seconds drops the half-second
TruncSecond(t) == 2 * (t \div 2)

(***************************************************************************)
(* Files                                                                   *)
(***************************************************************************)
MaxFiles == 2

\* relative paths a source tree is drawn from
SourcePaths == {"a.wav", "a.WAV", "a.Wav", "d/b.wav", "about.wav",
                "20240315_143000.wav"}

\* what the external inspection tool reports for a file
ProbeWav == [ok |-> TRUE, duration |-> 12, sampleRate |-> 48000,
             bitDepth |-> 24, channels |-> 2]

ProbeM4a == [ok |-> TRUE, duration |-> 12, sampleRate |-> 48000,
             bitDepth |-> 0, channels |-> 2]

ProbeFail == [ok |-> FALSE, duration |-> 0, sampleRate |-> 0,
              bitDepth |-> 0, channels |-> 0]

\* a source file created and last modified at instant t: creation time,
\* modification time, size in bytes, and the inspection tool's answer
FileAt(t, mb) ==
    [birth |-> t, mtime |-> t, size |-> mb * (1024 * 1024), probe |-> ProbeWav]

\* The first kind of file has times within a second, the second kind times
\* on a whole second.
SourceInfo(kind) ==
    IF kind = 1 THEN FileAt(Date(2023, 1, 2, 3, 4, 5) + 1, 3)
    ELSE FileAt(Date(2024, 6, 7, 8, 9, 10), 2)

\* the file found at each path of SourcePaths when it is present
SourceFile(p) ==
    IF p \in {"a.wav", "d/b.wav", "about.wav"} THEN SourceInfo(1) ELSE SourceInfo(2)

\* the wall clock when a file is written by the transcoder
Clock == {Date(2025, 1, 1, 0, 0, 0) + 1}

Put(f, k, v) == [x \in (DOMAIN f) \cup {k} |-> IF x = k THEN v ELSE f[x]]

Drop(f, K) == [x \in (DOMAIN f) \ K |-> f[x]]

NoFiles == [x \in {} |-> 0]

(***************************************************************************)
(* Metadata documents                                                      *)
(***************************************************************************)
\* a document that is not JSON
Garbage == [valid |-> FALSE]

\* json.MarshalIndent of an AudioMetadata value
Marshal(metadata) == [valid |-> TRUE, meta |-> metadata]

\* time.Time{}: an instant before every instant a file or a form carries
ZeroTime == Date(1970, 1, 1, 0, 0, 0)

\* AudioMetadata{}
ZeroMetadata ==
    [SourceFilename       |-> "",
     Title                |-> "",
     Description          |-> "",
     Location             |-> "",
     RecordDate           |-> ZeroTime,
     DurationSeconds      |-> 0,
     SourceFileSizeMB     |-> 0,
     CompressedFileSizeMB |-> 0,
     CompressedAudioPath  |-> "",
     TechInfo             |-> [SampleRate |-> 0, BitDepth |-> 0, Channels |-> 0]]

\* json.Unmarshal into an AudioMetadata value; a JSON object with none of
\* its keys leaves every field zero
Unmarshal(content) ==
    IF ~content.valid THEN [err |-> TRUE]
    ELSE IF "SourceFilename" \in DOMAIN content.meta
         THEN [err |-> FALSE, metadata |-> content.meta]
         ELSE [err |-> FALSE, metadata |-> ZeroMetadata]

\* json.MarshalIndent of a Settings value
MarshalSettings(settings) == [valid |-> TRUE, meta |-> [domain |-> settings.Domain]]

\* json.MarshalIndent of an AboutContent value
MarshalAbout(content) ==
    [valid |-> TRUE, meta |-> [Content |-> content.Content, Email |-> content.Email]]

DefaultSettings == [Domain |-> "https://your-domain.com"]

DefaultAbout == [Content |-> "about you and this site", Email |-> "your-email@example.com"]

\* loadSettings: an absent file gives the default; a read that fails for
\* another reason (readFails) and a file that is not JSON give an error; a
\* JSON object without the key leaves the field empty
loadSettings(json, readFails) ==
    IF readFails THEN [err |-> TRUE]
    ELSE IF "settings.json" \notin DOMAIN json
    THEN [err |-> FALSE, settings |-> DefaultSettings]
    ELSE IF ~json["settings.json"].valid THEN [err |-> TRUE]
    ELSE [err |-> FALSE,
          settings |-> [Domain |-> IF "domain" \in DOMAIN json["settings.json"].meta
                                   THEN json["settings.json"].meta.domain ELSE ""]]

\* a loader that takes an absent file for a failure
loadAboutContentStrict(json, readFails) ==
    IF readFails \/ "about.json" \notin DOMAIN json THEN [err |-> TRUE]
    ELSE IF ~json["about.json"].valid THEN [err |-> TRUE]
    ELSE [err |-> FALSE,
          content |-> IF "Content" \in DOMAIN json["about.json"].meta
                      THEN [Content |-> json["about.json"].meta.Content,
                            Email |-> json["about.json"].meta.Email]
                      ELSE [Content |-> "", Email |-> ""]]

\* loadAboutContent
loadAboutContent(json, readFails) ==
    IF readFails THEN [err |-> TRUE]
    ELSE IF "about.json" \notin DOMAIN json
    THEN [err |-> FALSE, content |-> DefaultAbout]
    ELSE IF ~json["about.json"].valid THEN [err |-> TRUE]
    ELSE [err |-> FALSE,
          content |-> IF "Content" \in DOMAIN json["about.json"].meta
                      THEN [Content |-> json["about.json"].meta.Content,
                            Email |-> json["about.json"].meta.Email]
                      ELSE [Content |-> "", Email |-> ""]]

specialJsonFiles == {"about.json", "settings.json"}

isSpecialJsonFile(filename) == filename \in specialJsonFiles

\* float64(info.Size()) / (1024 * 1024), for sizes of whole mebibytes
SizeMB(bytes) == bytes \div (1024 * 1024)

GetBirthTime(info) == info.birth

\* a fault is one failing step of an operation: the file or record it hits
\* and the step that fails
NoFault == [rec |-> "", kind |-> "none"]

Hit(fault, rec, kind) == fault.rec = rec /\ fault.kind = kind

\* the inspection tool on a file; it can fail to run
getAudioTechInfo(info, fails) == IF fails THEN ProbeFail ELSE info.probe

\* the document path, the cache path and the published path of a source path
JsonRelPath(relPath) == TrimSuffix(relPath, Ext(relPath)) \o ".json"

M4aRelPath(relPath) == TrimSuffix(relPath, Ext(relPath)) \o ".m4a"

CompressedPath(relPath) == "assets/audio/" \o M4aRelPath(relPath)

\* the forward scan's file filter
IsWavName(name) == HasSuffix(ToLower(name), ".wav")

\* a new record left without a record date when its name gives none
OrZeroTime(parsed, info) == IF parsed.ok THEN parsed.t ELSE ZeroTime

\* the record date of a new record: the file name's time if it has one
OrBirthTime(parsed, info) == IF parsed.ok THEN parsed.t ELSE GetBirthTime(info)

ResolveRecordDate(name, info) == OrBirthTime(parseTimeFromFilename(name), info)

NewMetadata(relPath, info) ==
    [SourceFilename       |-> relPath,
     Title                |-> TrimSuffix(Base(relPath), Ext(Base(relPath))),
     Description          |-> "",
     Location             |-> "",
     RecordDate           |-> ResolveRecordDate(Base(relPath), info),
     DurationSeconds      |-> 0,
     SourceFileSizeMB     |-> SizeMB(info.size),
     CompressedFileSizeMB |-> 0,
     CompressedAudioPath  |-> "",
     TechInfo             |-> [SampleRate |-> 0, BitDepth |-> 0, Channels |-> 0]]

WithTechInfo(metadata, tech) ==
    [metadata EXCEPT !.DurationSeconds = tech.duration,
                     !.TechInfo = [SampleRate |-> tech.sampleRate,
                                   BitDepth   |-> tech.bitDepth,
                                   Channels   |-> tech.channels]]

\* a replacement that stops after the first carriage return
RECURSIVE ReplaceFirst(_, _)
ReplaceFirst(s, old) ==
    IF s = "" THEN ""
    ELSE IF Head(s) = old THEN Tail(s)
         ELSE Head(s) \o ReplaceFirst(Tail(s), old)

StripFirstCR(s) == ReplaceFirst(s, "\r")

StripCR(s) == ReplaceAll(s, "\r")

\* a scan that fetches technical info for every record
AlwaysNeedsTechInfo(newFile, metadata) == TRUE

\* the forward scan fetches technical info for a new record or an unset rate
NeedsTechInfo(newFile, metadata) == newFile \/ metadata.TechInfo.SampleRate = 0

\* a forward scan that resolves the record date again for a stored record
LoadOrNewOverwriting(json, jsonFileRelPath, relPath, info) ==
    IF \/ jsonFileRelPath \notin DOMAIN json
       \/ Unmarshal(json[jsonFileRelPath]).err
    THEN [newFile |-> TRUE, metadata |-> NewMetadata(relPath, info)]
    ELSE [newFile |-> FALSE,
          metadata |-> [Unmarshal(json[jsonFileRelPath]).metadata
                            EXCEPT !.SourceFileSizeMB = SizeMB(info.size),
                                   !.RecordDate = ResolveRecordDate(Base(relPath), info)]]

\* a scan that gives the record made for an unparsable document no title
LoadOrNewUntitled(json, jsonFileRelPath, relPath, info) ==
    IF jsonFileRelPath \notin DOMAIN json
    THEN [newFile |-> TRUE, metadata |-> NewMetadata(relPath, info)]
    ELSE IF Unmarshal(json[jsonFileRelPath]).err
    THEN [newFile |-> TRUE, metadata |-> [NewMetadata(relPath, info) EXCEPT !.Title = ""]]
    ELSE [newFile |-> FALSE,
          metadata |-> [Unmarshal(json[jsonFileRelPath]).metadata
                            EXCEPT !.SourceFileSizeMB = SizeMB(info.size)]]

\* the record the forward scan starts from: a new one when the document is
\* missing or cannot be parsed, else the stored one with the size refreshed
LoadOrNew(json, jsonFileRelPath, relPath, info) ==
    IF \/ jsonFileRelPath \notin DOMAIN json
       \/ Unmarshal(json[jsonFileRelPath]).err
    THEN [newFile |-> TRUE, metadata |-> NewMetadata(relPath, info)]
    ELSE [newFile |-> FALSE,
          metadata |-> [Unmarshal(json[jsonFileRelPath]).metadata
                            EXCEPT !.SourceFileSizeMB = SizeMB(info.size)]]

\* technical info is stored when it is needed and the tool answers
FetchTechInfo(loaded, tech) ==
    IF NeedsTechInfo(loaded.newFile, loaded.metadata) /\ tech.ok
    THEN WithTechInfo(loaded.metadata, tech) ELSE loaded.metadata

\* a forward scan that resets the description of every record
AlwaysFieldsClearing(metadata, relPath) ==
    [metadata EXCEPT !.CompressedAudioPath = CompressedPath(relPath),
                     !.SourceFilename = relPath,
                     !.Title = StripCR(metadata.Title),
                     !.Description = "",
                     !.Location = StripCR(metadata.Location)]

\* the fields the forward scan sets on every run
AlwaysFields(metadata, relPath) ==
    [metadata EXCEPT !.CompressedAudioPath = CompressedPath(relPath),
                     !.SourceFilename = relPath,
                     !.Title = StripCR(metadata.Title),
                     !.Description = StripCR(metadata.Description),
                     !.Location = StripCR(metadata.Location)]

\* the metadata the forward scan writes for one source file
ScanMetadata(json, relPath, info, fault) ==
    AlwaysFields(FetchTechInfo(LoadOrNew(json, JsonRelPath(relPath), relPath, info),
                               getAudioTechInfo(info, Hit(fault, relPath, "probe"))),
                 relPath)

\* the calls of the inspection tool the forward scan makes for one source
\* file: one when the record is new or its stored sample rate is 0
Needed(loaded) == NeedsTechInfo(loaded.newFile, loaded.metadata)

Probes(json, relPath, info) ==
    IF Needed(LoadOrNew(json, JsonRelPath(relPath), relPath, info))
    THEN <<relPath>> ELSE << >>

\* the calls made for a file, followed by those of the rest of the scan
Probing(probes, rest) == [rest EXCEPT !.probed = probes \o @]

\* a scan that gives up when the inspection tool fails
RECURSIVE PassAEndingAtProbeFailure(_, _, _, _, _)
PassAEndingAtProbeFailure(json, wav, files, i, fault) ==
    IF i > Len(files) THEN [json |-> json, err |-> FALSE, probed |-> << >>]
    ELSE IF Hit(fault, files[i], "mkdir")
         THEN [json |-> json, err |-> TRUE, probed |-> << >>]
    ELSE IF Hit(fault, files[i], "write")
         THEN [json |-> Put(json, JsonRelPath(files[i]), Garbage), err |-> TRUE,
               probed |-> Probes(json, files[i], wav[files[i]])]
    ELSE IF Hit(fault, files[i], "probe") /\ Probes(json, files[i], wav[files[i]]) # << >>
         THEN [json |-> json, err |-> TRUE, probed |-> <<files[i]>>]
    ELSE Probing(Probes(json, files[i], wav[files[i]]),
                 PassAEndingAtProbeFailure(
                     Put(json, JsonRelPath(files[i]),
                         Marshal(ScanMetadata(json, files[i], wav[files[i]], fault))),
                     wav, files, i + 1, fault))

\* Pass A from the i-th source file on.  Failing to create the directory or
\* to write the document ends the scan with an error; a failed write leaves
\* the document truncated.  probed lists the files the inspection tool was
\* called for.
RECURSIVE PassA(_, _, _, _, _)
PassA(json, wav, files, i, fault) ==
    IF i > Len(files) THEN [json |-> json, err |-> FALSE, probed |-> << >>]
    ELSE IF Hit(fault, files[i], "mkdir")
         THEN [json |-> json, err |-> TRUE, probed |-> << >>]
    ELSE IF Hit(fault, files[i], "write")
         THEN [json |-> Put(json, JsonRelPath(files[i]), Garbage), err |-> TRUE,
               probed |-> Probes(json, files[i], wav[files[i]])]
    ELSE Probing(Probes(json, files[i], wav[files[i]]),
                 PassA(Put(json, JsonRelPath(files[i]),
                           Marshal(ScanMetadata(json, files[i], wav[files[i]], fault))),
                       wav, files, i + 1, fault))

\* the orphan sweep looks the document's name up with the extension in lower
\* case and in upper case among the files the forward scan found
HasWav(wavFilesFound, jsonRelPath) ==
    \/ (TrimSuffix(jsonRelPath, ".json") \o ".wav") \in wavFilesFound
    \/ (TrimSuffix(jsonRelPath, ".json") \o ".WAV") \in wavFilesFound

m4aCacheExists(m4a, jsonRelPath) ==
    (TrimSuffix(jsonRelPath, ".json") \o ".m4a") \in DOMAIN m4a

\* a sweep that tests the cache the wrong way round
IsOrphanCacheInverted(hasWav, hasM4aCache) == ~hasWav /\ hasM4aCache

\* a sweep that looks at the source only
IsOrphanWithoutSource(hasWav, hasM4aCache) == ~hasWav

IsOrphan(hasWav, hasM4aCache) == ~hasWav /\ ~hasM4aCache

\* the documents Pass B removes
Orphans(json, wavFilesFound, m4a) ==
    { d \in DOMAIN json :
        /\ HasSuffix(Base(d), ".json")
        /\ ~isSpecialJsonFile(Base(d))
        /\ IsOrphan(HasWav(wavFilesFound, d), m4aCacheExists(m4a, d)) }

(***************************************************************************)
(* State                                                                   *)
(*   wavFS, jsonFS, m4aFS  the three trees, relative path -> file          *)
(*   distFS                the paths of the files in the publish tree      *)
(*   listing               the records rendered into the primary listing   *)
(*   pc                    "down", "inited" (initAudioData has returned,   *)
(*                         syncAudioData is next) or "serving"             *)
(*   last                  the last operation and what it reported         *)
(*   snap                  the document tree as the last startup left it,  *)
(*                         while nothing has changed since                 *)
(*   faults, edits         the failing steps so far, and the changes the   *)
(*                         user has made so far, through the edit forms or *)
(*                         from outside                                    *)
(***************************************************************************)
MaxFaults == 1

MaxEdits == 1

NoSnap == [valid |-> FALSE, json |-> NoFiles]

\* the source trees of at most MaxFiles files with paths among paths
SourceTrees(paths) ==
    { [p \in S |-> SourceFile(p)] :
        S \in { T \in SUBSET paths : Cardinality(T) <= MaxFiles } }

\* the generation requests the server can be working on at a time
Requests == {"first", "second"}

\* a request that has not arrived
Idle == [pc |-> "idle", err |-> FALSE, flat |-> << >>, i |-> 0,
         out |-> << >>, log |-> << >>]

NoRuns == [r \in Requests |-> Idle]

\* a first start on one of the source trees, with the -wav flag given in one
\* of the forms of flags: no document, no cache, no site
InitTreesIn(trees, flags) ==
    /\ wavFS \in trees
    /\ jsonFS = NoFiles
    /\ m4aFS = NoFiles
    /\ distFS = {}
    /\ listing = << >>
    /\ pc = "down"
    /\ last = [op |-> "none", err |-> FALSE]
    /\ snap = NoSnap
    /\ faults = 0
    /\ edits = 0
    /\ inflight = [tree |-> FALSE, overlap |-> FALSE, run |-> NoRuns]
    /\ wavDir \in flags

\* a first start with the source directory named in its shortest form
InitTrees(trees) == InitTreesIn(trees, {"data/wav"})

InitWith(paths) == InitTrees(SourceTrees(paths))

Init == InitWith(SourcePaths)

\* the faults an operation may meet: none, or one of fs while the budget lasts
Faults(fs) == IF faults < MaxFaults THEN {NoFault} \cup fs ELSE {NoFault}

Count(fault) == IF fault = NoFault THEN 0 ELSE 1

FaultsOn(recs, kinds) == { [rec |-> r, kind |-> k] : r \in recs, k \in kinds }

WavFilesFound(wav) == { p \in DOMAIN wav : IsWavName(Base(p)) }

\* Pass B: the orphans are removed; a failed removal is logged and the sweep
\* goes on
PassB(json, orphans, fault) ==
    [json |-> Drop(json, { d \in orphans : ~Hit(fault, d, "remove") }),
     err |-> FALSE, orphans |-> orphans]

\* the result of Pass B with the calls of the inspection tool in Pass A
Swept(b, probed) ==
    [json |-> b.json, err |-> b.err, orphans |-> b.orphans, probed |-> probed]

\* a scan that sweeps the orphans even when Pass A has failed
AfterPassASweeping(a, wavFilesFound, m4a, fault) ==
    Swept([PassB(a.json, Orphans(a.json, wavFilesFound, m4a), fault) EXCEPT !.err = a.err],
          a.probed)

\* what follows Pass A: its error is returned, else Pass B runs
AfterPassA(a, wavFilesFound, m4a, fault) ==
    IF a.err THEN [json |-> a.json, err |-> TRUE, orphans |-> {}, probed |-> a.probed]
    ELSE Swept(PassB(a.json, Orphans(a.json, wavFilesFound, m4a), fault), a.probed)

\* the forward scan, then the orphan sweep
ScanAndSweep(json, wav, wavFilesFound, m4a, fault) ==
    AfterPassA(PassA(json, wav, WalkOrder(wavFilesFound), 1, fault),
               wavFilesFound, m4a, fault)

\* what a startup scan follows: a save request that was answered with a
\* redirect after renaming the record, or anything else
NoRename == [renamed |-> FALSE]

Follows(op) ==
    IF op.op = "save" /\ op.status = 303 /\ op.new # op.old
    THEN [renamed |-> TRUE, old |-> op.old, new |-> op.new, text |-> op.text]
    ELSE NoRename

\* initAudioData
InitAudioData ==
    /\ pc \in {"down", "serving"}
    /\ \E fault \in Faults(FaultsOn(WavFilesFound(wavFS), {"mkdir", "write", "probe"})
                        \cup FaultsOn(DOMAIN jsonFS \cup { JsonRelPath(p) : p \in WavFilesFound(wavFS) },
                                       {"remove"})) :
       \E r \in {ScanAndSweep(jsonFS, wavFS, WavFilesFound(wavFS), m4aFS, fault)} :
         /\ fault.kind = "remove" => fault.rec \in r.orphans
         /\ jsonFS' = r.json
         /\ pc' = IF r.err THEN "down" ELSE "inited"
         /\ last' = [op |-> "init", err |-> r.err, fault |-> fault,
                     orphans |-> r.orphans, probed |-> r.probed,
                     follows |-> Follows(last)]
         /\ snap' = IF fault = NoFault THEN snap ELSE NoSnap
         /\ faults' = faults + Count(fault)
    /\ inflight' = [inflight EXCEPT !.run = NoRuns]
    /\ UNCHANGED <<wavFS, m4aFS, distFS, listing, edits, wavDir>>

\* the walk callback of syncAudioData for one audio file: the record date of
\* its document is set to the file's birth time when they differ
SyncFile(json, jsonFileRelPath, birthTime, fault) ==
    IF jsonFileRelPath \notin DOMAIN json THEN json
    ELSE IF Unmarshal(json[jsonFileRelPath]).err THEN json
    ELSE IF /\ Unmarshal(json[jsonFileRelPath]).metadata.RecordDate # birthTime
            /\ ~Hit(fault, jsonFileRelPath, "write")
    THEN Put(json, jsonFileRelPath,
             Marshal([Unmarshal(json[jsonFileRelPath]).metadata
                          EXCEPT !.RecordDate = birthTime]))
    ELSE json

IsAudioName(name) ==
    HasSuffix(ToLower(name), ".wav") \/ HasSuffix(ToLower(name), ".m4a")

RECURSIVE SyncWalk(_, _, _, _, _)
SyncWalk(json, fs, files, i, fault) ==
    IF i > Len(files) THEN json
    ELSE SyncWalk(SyncFile(json, JsonRelPath(files[i]), GetBirthTime(fs[files[i]]), fault),
                  fs, files, i + 1, fault)

\* the documents one walk of syncAudioData writes, in the order of the
\* writes
RECURSIVE SyncWrites(_, _, _, _, _)
SyncWrites(json, fs, files, i, fault) ==
    IF i > Len(files) THEN << >>
    ELSE (IF SyncFile(json, JsonRelPath(files[i]), GetBirthTime(fs[files[i]]), fault) # json
          THEN <<JsonRelPath(files[i])>> ELSE << >>)
         \o SyncWrites(SyncFile(json, JsonRelPath(files[i]), GetBirthTime(fs[files[i]]),
                                 fault),
                        fs, files, i + 1, fault)

AudioFiles(fs) == WalkOrder({ p \in DOMAIN fs : IsAudioName(Base(p)) })

\* the two walks: the source tree, then the cache tree
SyncTrees(json, wav, m4a, fault) ==
    SyncWalk(SyncWalk(json, wav, AudioFiles(wav), 1, fault),
             m4a, AudioFiles(m4a), 1, fault)

\* the document writes of the two walks
SyncTreesWrites(json, wav, m4a, fault) ==
    SyncWrites(json, wav, AudioFiles(wav), 1, fault)
        \o SyncWrites(SyncWalk(json, wav, AudioFiles(wav), 1, fault),
                      m4a, AudioFiles(m4a), 1, fault)

\* syncAudioData; a failed document write is logged
SyncAudioData ==
    /\ pc = "inited"
    /\ \E fault \in Faults(FaultsOn(DOMAIN jsonFS, {"write"})) :
       \E json \in {SyncTrees(jsonFS, wavFS, m4aFS, fault)} :
         /\ jsonFS' = json
         /\ last' = [op |-> "sync", err |-> FALSE, fault |-> fault,
                     prev |-> IF fault = NoFault /\ last.fault = NoFault
                              THEN snap ELSE NoSnap]
         /\ snap' = IF fault = NoFault /\ last.fault = NoFault
                    THEN [valid |-> TRUE, json |-> json] ELSE NoSnap
         /\ faults' = faults + Count(fault)
    /\ pc' = "serving"
    /\ UNCHANGED <<wavFS, m4aFS, distFS, listing, edits, inflight, wavDir>>

(***************************************************************************)
(* Generation                                                              *)
(***************************************************************************)
\* loadAllMetadataGroupedByFolder, flattened: the parsable documents other
\* than the special ones
LoadAllMetadata(json) ==
    { Unmarshal(json[d]).metadata :
        d \in { x \in DOMAIN json : /\ HasSuffix(Base(x), ".json")
                                    /\ ~isSpecialJsonFile(Base(x))
                                    /\ ~Unmarshal(json[x]).err } }

\* a comparison the wrong way round
Before(t, u) == t < u

\* the comparison function handed to sort.Slice
After(t, u) == t > u

\* sort.Slice over the records taken from a map of groups: some arrangement
\* in which no record comes before one with a later record date
SortedArrangements(records) ==
    { f \in [1..Cardinality(records) -> records] :
        /\ \A i, j \in DOMAIN f : i # j => f[i] # f[j]
        /\ \A i, j \in DOMAIN f : i < j => ~After(f[j].RecordDate, f[i].RecordDate) }

\* a freshness test that also re-encodes a cache as old as the source
ShouldTranscodeNotNewer(cacheExists, cacheModTime, wavModTime) ==
    ~(cacheExists /\ ~(cacheModTime <= wavModTime))

\* the cache is reused when it exists and is not older than the source
ShouldTranscode(cacheExists, cacheModTime, wavModTime) ==
    ~(cacheExists /\ ~(cacheModTime < wavModTime))

\* the cache file the transcoder writes at instant t; an existing file keeps
\* its creation time
Transcoded(m4a, path, t) ==
    [birth |-> IF path \in DOMAIN m4a THEN m4a[path].birth ELSE t,
     mtime |-> t, size |-> 1024 * 1024, probe |-> ProbeM4a]

\* SetBirthTime: setfile sets the creation and the modification date to t,
\* given with whole seconds; when setfile fails the file is left as it is
SetBirthTime(info, t, fails) ==
    IF fails THEN info
    ELSE [info EXCEPT !.birth = TruncSecond(t), !.mtime = TruncSecond(t)]

\* a drop that leaves the document where it is
KeepDocument(json, originalJsonPath, fails) == json

\* the document of a record whose audio is lost is removed; a failed removal
\* is logged
RemoveDocument(json, originalJsonPath, fails) ==
    IF fails THEN json ELSE Drop(json, {originalJsonPath})

\* a generation that never looks at the stored technical fields
NeverMissingTechInfo(meta) == FALSE

\* the technical fields of a record count as missing when the stored sample
\* rate or the stored duration is 0
MissingTechInfo(meta) == meta.TechInfo.SampleRate = 0 \/ meta.DurationSeconds = 0

\* a generation that writes the entry it made for the listing back to the
\* document
StoreListed(json, originalJsonPath, stored, listed, backfill, fails) ==
    IF fails THEN json ELSE Put(json, originalJsonPath, Marshal(listed))

\* what the loop writes to the document store for a record it goes on to
\* stage: the record with the technical info fetched from the cache, when it
\* was fetched; the entry made for the listing is not written
StoreRecord(json, originalJsonPath, stored, listed, backfill, fails) ==
    IF backfill /\ ~fails THEN Put(json, originalJsonPath, Marshal(stored)) ELSE json

\* one record of the generation loop.  st is what the loop has built so far.
GenRecord(st, wav, meta, fault, t) ==
    LET src == meta.SourceFilename
        originalJsonPath == JsonRelPath(src)
        m4aCachePath == M4aRelPath(src)
        wavExists == src \in DOMAIN wav
        cacheExists == m4aCachePath \in DOMAIN st.m4a
        shouldTranscode ==
            wavExists /\ ShouldTranscode(cacheExists,
                                         IF cacheExists THEN st.m4a[m4aCachePath].mtime ELSE 0,
                                         wav[src].mtime)
        event == [src |-> src, wavExists |-> wavExists, cacheExists |-> cacheExists,
                  stale |-> wavExists /\ cacheExists
                            /\ st.m4a[m4aCachePath].mtime < wav[src].mtime,
                  transcode |-> shouldTranscode,
                  inspected |-> ~wavExists /\ cacheExists /\ MissingTechInfo(meta),
                  outcome |-> "published"]
        m4a1 == IF shouldTranscode
                THEN Put(st.m4a, m4aCachePath,
                         SetBirthTime(Transcoded(st.m4a, m4aCachePath, t), wav[src].mtime,
                                      Hit(fault, src, "setfile")))
                ELSE st.m4a
        tech == getAudioTechInfo(st.m4a[m4aCachePath], Hit(fault, src, "probe"))
        backfill == /\ ~wavExists /\ cacheExists
                    /\ MissingTechInfo(meta)
                    /\ tech.ok
        meta1 == IF backfill THEN WithTechInfo(meta, tech) ELSE meta
        dst == CompressedPath(src)
        meta2 == [meta1 EXCEPT !.CompressedAudioPath = dst,
                               !.CompressedFileSizeMB = SizeMB(m4a1[m4aCachePath].size)]
        json1 == StoreRecord(st.json, originalJsonPath, meta1, meta2, backfill,
                             Hit(fault, src, "write"))
    IN  IF shouldTranscode /\ Hit(fault, src, "transcode")
        THEN [st EXCEPT !.log = Append(@, [event EXCEPT !.outcome = "transcodeFailed"])]
        ELSE IF ~wavExists /\ ~cacheExists
        THEN [st EXCEPT !.json = RemoveDocument(@, originalJsonPath,
                                                Hit(fault, src, "remove")),
                        !.log = Append(@, [event EXCEPT !.outcome = "dropped"])]
        ELSE IF Hit(fault, src, "stageOpen")
        THEN [st EXCEPT !.m4a = m4a1, !.json = json1,
                        !.log = Append(@, [event EXCEPT !.outcome = "stageFailed"])]
        ELSE IF Hit(fault, src, "stageCopy")
        THEN [st EXCEPT !.m4a = m4a1, !.json = json1, !.staged = @ \cup {dst},
                        !.log = Append(@, [event EXCEPT !.outcome = "stageFailed"])]
        ELSE [st EXCEPT !.m4a = m4a1, !.json = json1, !.staged = @ \cup {dst},
                        !.out = Append(@, meta2),
                        !.log = Append(@, event)]

\* a loop that ends at the first record whose transcoding or staging fails
RECURSIVE GenLoopEndingAtFailure(_, _, _, _, _, _)
GenLoopEndingAtFailure(st, wav, flat, i, fault, t) ==
    IF i > Len(flat) THEN st
    ELSE IF GenRecord(st, wav, flat[i], fault, t).log[i].outcome
                \in {"transcodeFailed", "stageFailed"}
    THEN GenRecord(st, wav, flat[i], fault, t)
    ELSE GenLoopEndingAtFailure(GenRecord(st, wav, flat[i], fault, t),
                                wav, flat, i + 1, fault, t)

\* the loop over the sorted records: a record that fails is left out and the
\* loop goes on with the next
RECURSIVE GenLoop(_, _, _, _, _, _)
GenLoop(st, wav, flat, i, fault, t) ==
    IF i > Len(flat) THEN st
    ELSE GenLoop(GenRecord(st, wav, flat[i], fault, t), wav, flat, i + 1, fault, t)

\* the steps of one record that can fail, given the branch the record takes
RecordFaults(wav, m4a, records) ==
    UNION { LET src == m.SourceFilename
                wavExists == src \in DOMAIN wav
                cacheExists == M4aRelPath(src) \in DOMAIN m4a
            IN  FaultsOn({src},
                    IF wavExists THEN {"transcode", "setfile", "stageOpen", "stageCopy"}
                    ELSE IF cacheExists THEN {"probe", "write", "stageOpen", "stageCopy"}
                    ELSE {"remove"})
            : m \in records }

FatalFaults == FaultsOn({""}, {"clean", "index", "settings", "about"})

\* the end of runGenerationLogic: the settings and the about content are
\* loaded, in this order, and the first failure ends the run
LoadSite(json, fault) ==
    IF loadSettings(json, Hit(fault, "", "settings")).err
    THEN [err |-> TRUE, step |-> "settings"]
    ELSE IF loadAboutContent(json, Hit(fault, "", "about")).err
    THEN [err |-> TRUE, step |-> "about"]
    ELSE [err |-> FALSE, step |-> "done",
          settings |-> loadSettings(json, FALSE).settings,
          about |-> loadAboutContent(json, FALSE).content]

SiteFiles == {"index.html", "about.html", "sitemap.xml", "robots.txt"}

\* runGenerationLogic.  The publish tree is removed and rebuilt; a fatal
\* fault ends the run with an error at the step it names.
RunGeneration ==
    /\ pc = "serving"
    /\ \E fault \in Faults(RecordFaults(wavFS, m4aFS, LoadAllMetadata(jsonFS)) \cup FatalFaults),
          flat \in SortedArrangements(LoadAllMetadata(jsonFS)),
          t \in Clock :
       \E st \in {GenLoop([json |-> jsonFS, m4a |-> m4aFS, staged |-> {},
                             out |-> << >>, log |-> << >>],
                            wavFS, flat, 1, fault, t)} :
       \E site \in {LoadSite(st.json, fault)} :
         /\ IF fault.kind = "clean"
            THEN /\ UNCHANGED <<jsonFS, m4aFS, distFS, listing>>
                 /\ last' = [op |-> "gen", err |-> TRUE, fault |-> fault, log |-> << >>]
            ELSE /\ jsonFS' = st.json
                 /\ m4aFS' = st.m4a
                 /\ distFS' = st.staged \cup
                              (CASE fault.kind = "index" -> {}
                                 [] site.err -> {"index.html"}
                                 [] OTHER -> SiteFiles)
                 /\ listing' = IF fault.kind = "index" THEN << >> ELSE st.out
                 /\ last' = [op |-> "gen", err |-> fault.kind = "index" \/ site.err,
                             fault |-> fault, log |-> st.log,
                             site |-> IF fault.kind = "index" THEN [err |-> TRUE, step |-> "index"]
                                      ELSE site]
         /\ inflight' = IF fault.kind = "clean" THEN inflight
                        ELSE [inflight EXCEPT !.tree = TRUE, !.overlap = FALSE]
         /\ faults' = faults + Count(fault)
    /\ snap' = NoSnap
    /\ UNCHANGED <<wavFS, pc, edits, wavDir>>

(***************************************************************************)
(* Generation requests served at the same time                             *)
(*                                                                         *)
(* net/http serves every request in a goroutine of its own and the         *)
(* handlers take no lock, so the file operations of two runs of            *)
(* runGenerationLogic interleave.  A run is taken in steps: the removal of *)
(* the publish tree, its re-creation and the loading of the documents, one *)
(* step per record, the writing of index.html, and the rest of the site.   *)
(* inflight.tree says whether the directory of the publish tree exists,    *)
(* inflight.overlap whether the run that cleaned the tree last met another *)
(* run in progress.                                                        *)
(***************************************************************************)
Active(run) == run.pc \notin {"idle", "done"}

Finished(run, failed) == [run EXCEPT !.pc = "done", !.err = failed]

\* an index page that lists every record loaded
IndexContentOfAll(flat, out) == flat

\* the records index.html is rendered from: those the loop processed
IndexContent(flat, out) == out

\* os.RemoveAll(distDir) at the start of a run
GenClean ==
    /\ pc = "serving"
    /\ \E r \in Requests :
         /\ inflight.run[r].pc = "idle"
         /\ \E fault \in Faults(FaultsOn({""}, {"clean"})) :
              /\ IF fault = NoFault
                 THEN /\ distFS' = {}
                      /\ listing' = << >>
                      /\ inflight' =
                           [tree |-> FALSE,
                            overlap |-> \E o \in Requests \ {r} : Active(inflight.run[o]),
                            run |-> [inflight.run EXCEPT ![r].pc = "clean"]]
                 ELSE /\ inflight' = [inflight EXCEPT !.run[r] = Finished(@, TRUE)]
                      /\ UNCHANGED <<distFS, listing>>
              /\ faults' = faults + Count(fault)
    /\ snap' = NoSnap
    /\ UNCHANGED <<wavFS, jsonFS, m4aFS, pc, last, edits, wavDir>>

\* os.MkdirAll(assetsAudioDir), then the documents are loaded and sorted
GenLoad ==
    /\ pc = "serving"
    /\ \E r \in Requests :
         /\ inflight.run[r].pc = "clean"
         /\ \E flat \in SortedArrangements(LoadAllMetadata(jsonFS)) :
              inflight' = [inflight EXCEPT !.tree = TRUE,
                                           !.run[r].pc = "loop",
                                           !.run[r].flat = flat,
                                           !.run[r].i = 1]
    /\ UNCHANGED <<wavFS, jsonFS, m4aFS, distFS, listing, pc, last, snap, faults, edits, wavDir>>

\* one record of the loop, on the files as they are now; copyM4aToDist
\* makes the directories of the publish tree it needs
GenStage ==
    /\ pc = "serving"
    /\ \E r \in Requests :
         /\ inflight.run[r].pc = "loop"
         /\ inflight.run[r].i <= Len(inflight.run[r].flat)
         /\ \E fault \in Faults(RecordFaults(wavFS, m4aFS,
                                  {inflight.run[r].flat[inflight.run[r].i]})),
               t \in Clock :
            \E st \in {GenRecord([json |-> jsonFS, m4a |-> m4aFS, staged |-> distFS,
                                   out |-> inflight.run[r].out,
                                   log |-> inflight.run[r].log],
                                  wavFS, inflight.run[r].flat[inflight.run[r].i],
                                  fault, t)} :
              /\ jsonFS' = st.json
              /\ m4aFS' = st.m4a
              /\ distFS' = st.staged
              /\ inflight' =
                    [inflight EXCEPT
                       !.tree = @ \/ st.log[Len(st.log)].outcome
                                        \in {"published", "stageFailed"},
                       !.run[r].out = st.out,
                       !.run[r].log = st.log,
                       !.run[r].i = @ + 1]
              /\ faults' = faults + Count(fault)
    /\ snap' = NoSnap
    /\ UNCHANGED <<wavFS, listing, pc, last, edits, wavDir>>

\* index.html is created and rendered; a failure ends the run with an error
GenIndex ==
    /\ pc = "serving"
    /\ \E r \in Requests :
         /\ inflight.run[r].pc = "loop"
         /\ inflight.run[r].i > Len(inflight.run[r].flat)
         /\ \E fault \in Faults(FaultsOn({""}, {"index"})) :
              /\ IF fault = NoFault /\ inflight.tree
                 THEN /\ distFS' = distFS \cup {"index.html"}
                      /\ listing' = IndexContent(inflight.run[r].flat, inflight.run[r].out)
                      /\ inflight' = [inflight EXCEPT !.run[r].pc = "site"]
                 ELSE /\ inflight' = [inflight EXCEPT !.run[r] = Finished(@, TRUE)]
                      /\ UNCHANGED <<distFS, listing>>
              /\ faults' = faults + Count(fault)
    /\ UNCHANGED <<wavFS, jsonFS, m4aFS, pc, last, snap, edits, wavDir>>

\* the settings and the about content are loaded and about.html,
\* sitemap.xml and robots.txt are written; the run returns
GenSite ==
    /\ pc = "serving"
    /\ \E r \in Requests :
         /\ inflight.run[r].pc = "site"
         /\ \E fault \in Faults(FaultsOn({""}, {"settings", "about"})) :
            \E site \in {LoadSite(jsonFS, fault)} :
              /\ IF ~site.err /\ inflight.tree
                 THEN /\ distFS' = distFS \cup SiteFiles
                      /\ inflight' = [inflight EXCEPT !.run[r] = Finished(@, FALSE)]
                 ELSE /\ inflight' = [inflight EXCEPT !.run[r] = Finished(@, TRUE)]
                      /\ UNCHANGED distFS
              /\ faults' = faults + Count(fault)
    /\ UNCHANGED <<wavFS, jsonFS, m4aFS, listing, pc, last, snap, edits, wavDir>>

(***************************************************************************)
(* Handlers                                                                *)
(***************************************************************************)
\* filepath.Clean on the forms of the -wav flag considered: a leading "./"
\* is dropped
Clean(path) == IF HasPrefix(path, "./") THEN SubSeq(path, 3, Len(path)) ELSE path

\* filepath.Join of a directory and a path below it; the result is cleaned
JoinRoot(root, rel) == Clean(root \o "/" \o rel)

\* the root directories as main sets them: the source directory is the flag
\* as it was given, the document and the cache directory are joined to its
\* parent
RootDirs(flag) ==
    [wav |-> flag, json |-> JoinRoot(Dir(flag), "json"), m4a |-> JoinRoot(Dir(flag), "m4a")]

\* the file of a record in each of the three trees
RecordFiles(sourceFilename) ==
    [wav |-> sourceFilename, json |-> JsonRelPath(sourceFilename),
     m4a |-> M4aRelPath(sourceFilename)]

\* the directories deleteHandler leaves alone: ".", "/" and the root of the
\* tree, compared as strings
IsRoot(dir, root) == dir = "." \/ dir = "/" \/ dir = root

\* the directories deleteHandler removes after the files, given by tree and
\* by their path below the root ("." is the root itself): the parent of the
\* record's file, when it is not taken for a root, exists and has no entry
RemovedDirs(roots, files, before, after) ==
    { [tree |-> k, dir |-> Dir(files[k])] :
        k \in { t \in DOMAIN files :
                  /\ ~IsRoot(Dir(JoinRoot(roots[t], files[t])), roots[t])
                  /\ \/ Dir(files[t]) = "."
                     \/ \E f \in DOMAIN before[t] : HasPrefix(f, Dir(files[t]) \o "/")
                  /\ \A f \in DOMAIN after[t] :
                        Dir(files[t]) # "." /\ ~HasPrefix(f, Dir(files[t]) \o "/") } }

\* deleteHandler for a listed record: the source file, the document and the
\* cache file are removed; a failed removal is logged; the parent
\* directories left empty are removed
DeleteHandler ==
    /\ pc = "serving"
    /\ \E sourceFilename \in { m.SourceFilename : m \in LoadAllMetadata(jsonFS) } :
       \E fault \in Faults(FaultsOn({sourceFilename}, {"wav", "json", "m4a"})) :
         /\ wavFS' = IF fault.kind = "wav" THEN wavFS ELSE Drop(wavFS, {sourceFilename})
         /\ jsonFS' = IF fault.kind = "json" THEN jsonFS
                      ELSE Drop(jsonFS, {JsonRelPath(sourceFilename)})
         /\ m4aFS' = IF fault.kind = "m4a" THEN m4aFS
                     ELSE Drop(m4aFS, {M4aRelPath(sourceFilename)})
         /\ last' = [op |-> "delete", err |-> FALSE, fault |-> fault,
                     rec |-> sourceFilename,
                     removed |-> RemovedDirs(RootDirs(wavDir), RecordFiles(sourceFilename),
                                             [wav |-> wavFS, json |-> jsonFS, m4a |-> m4aFS],
                                             [wav |-> wavFS', json |-> jsonFS',
                                              m4a |-> m4aFS'])]
         /\ faults' = faults + Count(fault)
    /\ snap' = NoSnap
    /\ UNCHANGED <<distFS, listing, pc, edits, inflight, wavDir>>

\* the three trees a record has a file in
Trees == {"wav", "json", "m4a"}

\* a directory of a tree exists when it is the root, when a file of the tree
\* lies in it, or when it was made from outside
DirExists(fs, dir, made) ==
    \/ dir = "."
    \/ made
    \/ \E f \in DOMAIN fs : HasPrefix(f, dir \o "/")

\* os.Rename: the file moves to the new path; it fails when the directory of
\* the new path does not exist
Rename(fs, oldPath, newPath) == Put(Drop(fs, {oldPath}), newPath, fs[oldPath])

\* safeRename: an occupied target is an error, a missing file is a success
SafeRename(fs, oldPath, newPath, dirExists, fails) ==
    IF newPath \in DOMAIN fs THEN [err |-> TRUE, fs |-> fs]
    ELSE IF oldPath \notin DOMAIN fs THEN [err |-> FALSE, fs |-> fs]
    ELSE IF ~dirExists \/ fails THEN [err |-> TRUE, fs |-> fs]
    ELSE [err |-> FALSE, fs |-> Rename(fs, oldPath, newPath)]

\* the three renames of saveHandler after the source file has been renamed
\* (w): a failure for the document ends the request, a failure for the cache
\* file is logged
RenameCache(w, j, c, newSourceFilename) ==
    [wav |-> w.fs, json |-> j.fs, m4a |-> c.fs, status |-> 303,
     current |-> newSourceFilename, cacheErr |-> c.err]

RenameDocument(w, j, m4a, old, new, made, fault) ==
    IF j.err
    THEN [wav |-> w.fs, json |-> j.fs, m4a |-> m4a, status |-> 500,
          current |-> old, cacheErr |-> FALSE]
    ELSE RenameCache(w, j,
                     SafeRename(m4a, M4aRelPath(old), M4aRelPath(new),
                                DirExists(m4a, Dir(new), "m4a" \in made),
                                Hit(fault, old, "renameM4a")),
                     new)

RenameSource(w, json, m4a, old, new, made, fault) ==
    IF w.err
    THEN [wav |-> w.fs, json |-> json, m4a |-> m4a, status |-> 500,
          current |-> old, cacheErr |-> FALSE]
    ELSE RenameDocument(w,
                        SafeRename(json, JsonRelPath(old), JsonRelPath(new),
                                   DirExists(json, Dir(new), "json" \in made),
                                   Hit(fault, old, "renameJson")),
                        m4a, old, new, made, fault)

\* the renaming part of saveHandler
RenameAll(wav, json, m4a, old, new, made, fault) ==
    IF new = old
    THEN [wav |-> wav, json |-> json, m4a |-> m4a, status |-> 303,
          current |-> old, cacheErr |-> FALSE]
    ELSE RenameSource(SafeRename(wav, old, new,
                                 DirExists(wav, Dir(new), "wav" \in made),
                                 Hit(fault, old, "renameWav")),
                      json, m4a, old, new, made, fault)

\* time.ParseInLocation with the layout "2006-01-02 15:04:05" on the date
\* and the time of the form joined by a space (whole seconds)
ParseDateTime(s) ==
    IF /\ Len(s) = 19
       /\ AllDigits(SubSeq(s, 1, 4)) /\ Char(s, 5) = "-"
       /\ AllDigits(SubSeq(s, 6, 7)) /\ Char(s, 8) = "-"
       /\ AllDigits(SubSeq(s, 9, 10)) /\ Char(s, 11) = " "
       /\ AllDigits(SubSeq(s, 12, 13)) /\ Char(s, 14) = ":"
       /\ AllDigits(SubSeq(s, 15, 16)) /\ Char(s, 17) = ":"
       /\ AllDigits(SubSeq(s, 18, 19))
    THEN ParseFields(Atoi(SubSeq(s, 1, 4)), Atoi(SubSeq(s, 6, 7)), Atoi(SubSeq(s, 9, 10)),
                     Atoi(SubSeq(s, 12, 13)), Atoi(SubSeq(s, 15, 16)),
                     Atoi(SubSeq(s, 18, 19)))
    ELSE NoTime

\* the record date the form asks for, if it asks for one and it parses
FormTime(form) ==
    IF form.record_date_date # "" /\ form.record_date_time # ""
    THEN ParseDateTime(form.record_date_date \o " " \o form.record_date_time)
    ELSE NoTime

\* updateAssociatedFileTimestamps on the file at path of one tree; a
\* failure of SetBirthTime is logged
Restamp(fs, path, parsed, fails) ==
    IF parsed.ok /\ path \in DOMAIN fs
    THEN Put(fs, path, SetBirthTime(fs[path], parsed.t, fails))
    ELSE fs

\* the document saveHandler writes from the loaded one and the form
Edited(metadata, current, form, parsed) ==
    [metadata EXCEPT !.SourceFilename = current,
                     !.CompressedAudioPath = CompressedPath(current),
                     !.Title = ReplaceAll(form.title, "\r"),
                     !.Description = ReplaceAll(form.description, "\r"),
                     !.Location = ReplaceAll(form.location, "\r"),
                     !.RecordDate = IF parsed.ok THEN parsed.t ELSE @]

\* the part of saveHandler after the renaming (r): the document is loaded
\* from the current path, updated from the form and written back
UpdateDocument(r, form, parsed, fault) ==
    IF r.status # 303 THEN r
    ELSE IF \/ JsonRelPath(r.current) \notin DOMAIN r.json
            \/ Unmarshal(r.json[JsonRelPath(r.current)]).err
    THEN [r EXCEPT !.status = 404]
    ELSE [r EXCEPT
            !.wav = Restamp(@, r.current, parsed, Hit(fault, form.source_filename, "setfile")),
            !.m4a = Restamp(@, M4aRelPath(r.current), parsed,
                            Hit(fault, form.source_filename, "setfile")),
            !.json = IF Hit(fault, form.source_filename, "write") THEN @
                     ELSE Put(@, JsonRelPath(r.current),
                              Marshal(Edited(Unmarshal(r.json[JsonRelPath(r.current)]).metadata,
                                             r.current, form, parsed))),
            !.status = IF Hit(fault, form.source_filename, "write") THEN 500 ELSE 303]

\* the requests of the edit form
Folders == {"old", "new"}

SaveForms(sources) ==
    [source_filename : sources,
     folder_path : Folders,
     base_filename : {"clip"},
     title : {"my\rclip"},
     description : {""},
     location : {""},
     record_date_date : {"", "2022-02-02", "2022-13-02"},
     record_date_time : {"02:02:02"}]

NewSourceFilename(form) ==
    Join(form.folder_path, form.base_filename \o Ext(form.source_filename))

\* saveHandler for a record of the edit page.  The folder of the new path
\* exists in the trees of made, besides those where a file lies in it.
SaveHandler ==
    /\ pc = "serving"
    /\ edits < MaxEdits
    /\ \E form \in SaveForms({ m.SourceFilename : m \in LoadAllMetadata(jsonFS) }),
          made \in SUBSET Trees :
       \E fault \in Faults(FaultsOn({form.source_filename},
                                     {"renameWav", "renameJson", "renameM4a", "setfile",
                                      "write"})) :
       \E r \in {UpdateDocument(RenameAll(wavFS, jsonFS, m4aFS, form.source_filename,
                                          NewSourceFilename(form), made, fault),
                                form, FormTime(form), fault)} :
         /\ wavFS' = r.wav
         /\ jsonFS' = r.json
         /\ m4aFS' = r.m4a
         /\ last' = [op |-> "save", err |-> r.status # 303, fault |-> fault,
                     old |-> form.source_filename, new |-> NewSourceFilename(form),
                     status |-> r.status, cacheErr |-> r.cacheErr,
                     text |-> <<form.title, form.description, form.location>>]
         /\ faults' = faults + Count(fault)
    /\ snap' = NoSnap
    /\ edits' = edits + 1
    /\ UNCHANGED <<distFS, listing, pc, inflight, wavDir>>

\* the document with the location of the folder form
Relocated(content, folderPath, newLocation) ==
    IF /\ ~Unmarshal(content).err
       /\ Dir(Unmarshal(content).metadata.SourceFilename) = folderPath
    THEN Marshal([Unmarshal(content).metadata EXCEPT !.Location = newLocation])
    ELSE content

\* the key under which loadAllMetadataGroupedByFolder files a record
FolderKey(sourceFilename) ==
    IF Dir(sourceFilename) = "." THEN "/" ELSE Dir(sourceFilename)

\* loadAllMetadataGroupedByFolder
loadAllMetadataGroupedByFolder(json) ==
    [k \in { FolderKey(m.SourceFilename) : m \in LoadAllMetadata(json) } |->
        { m \in LoadAllMetadata(json) : FolderKey(m.SourceFilename) = k }]

\* the folder paths of the folder form: the keys the folder page is opened
\* with, the folders of the edit form, and no path at all
FolderRequests(json) ==
    DOMAIN loadAllMetadataGroupedByFolder(json) \cup Folders \cup {""}

\* saveFolderHandler: a request without a path is answered with 400;
\* otherwise every parsable document outside the special ones whose source
\* lies in the folder gets the location of the form; a failed write is logged
SaveFolderHandler ==
    /\ pc = "serving"
    /\ edits < MaxEdits
    /\ \E folderPath \in FolderRequests(jsonFS), location \in {"HK", "H\rK"} :
       \E fault \in Faults(FaultsOn(DOMAIN jsonFS, {"write"})) :
         /\ jsonFS' = IF folderPath = "" THEN jsonFS
                      ELSE [d \in DOMAIN jsonFS |->
                         IF /\ HasSuffix(Base(d), ".json")
                            /\ ~isSpecialJsonFile(Base(d))
                            /\ ~Hit(fault, d, "write")
                         THEN Relocated(jsonFS[d], folderPath, ReplaceAll(location, "\r"))
                         ELSE jsonFS[d]]
         /\ last' = [op |-> "saveFolder", err |-> folderPath = "", fault |-> fault,
                     path |-> folderPath, location |-> ReplaceAll(location, "\r"),
                     status |-> IF folderPath = "" THEN 400 ELSE 303]
         /\ faults' = faults + Count(fault)
    /\ snap' = NoSnap
    /\ edits' = edits + 1
    /\ UNCHANGED <<wavFS, m4aFS, distFS, listing, pc, inflight, wavDir>>

(***************************************************************************)
(* The environment                                                         *)
(***************************************************************************)
\* the user removes a source file
RemoveSource ==
    /\ pc # "inited"
    /\ edits < MaxEdits
    /\ \E p \in DOMAIN wavFS : wavFS' = Drop(wavFS, {p})
    /\ last' = [op |-> "env", err |-> FALSE]
    /\ snap' = NoSnap
    /\ edits' = edits + 1
    /\ UNCHANGED <<jsonFS, m4aFS, distFS, listing, pc, faults, inflight, wavDir>>

\* a source file that has been transcoded is taken away from outside, which
\* leaves a record with its document and its cache file
LoseSource ==
    /\ pc # "inited"
    /\ \E p \in DOMAIN wavFS :
         /\ M4aRelPath(p) \in DOMAIN m4aFS
         /\ wavFS' = Drop(wavFS, {p})
    /\ last' = [op |-> "env", err |-> FALSE]
    /\ snap' = NoSnap
    /\ UNCHANGED <<jsonFS, m4aFS, distFS, listing, pc, faults, edits, inflight, wavDir>>

\* a document is changed outside the program: damaged, given text with
\* carriage returns, or given another record date
DocEdits(metadata) ==
    { Garbage,
      Marshal([metadata EXCEPT !.Description = "x\r\ry"]),
      Marshal([metadata EXCEPT !.RecordDate = Date(2022, 2, 2, 2, 2, 2)]) }

ExternalEdit ==
    /\ pc # "inited"
    /\ edits < MaxEdits
    /\ \E d \in { x \in DOMAIN jsonFS : jsonFS[x].valid } :
         \E content \in DocEdits(Unmarshal(jsonFS[d]).metadata) :
            jsonFS' = [jsonFS EXCEPT ![d] = content]
    /\ last' = [op |-> "env", err |-> FALSE]
    /\ snap' = NoSnap
    /\ edits' = edits + 1
    /\ UNCHANGED <<wavFS, m4aFS, distFS, listing, pc, faults, inflight, wavDir>>

\* the requests of the about form
AboutForms == [content : {"my\rstory"}, email : {"me@example.org"}]

\* saveAboutHandler: the about content of the form is written to about.json;
\* a failed write is answered with 500
SaveAboutHandler ==
    /\ pc = "serving"
    /\ edits < MaxEdits
    /\ \E form \in AboutForms :
       \E fault \in Faults(FaultsOn({"about.json"}, {"write"})) :
         /\ jsonFS' = IF fault = NoFault
                      THEN Put(jsonFS, "about.json",
                               MarshalAbout([Content |-> StripCR(form.content),
                                             Email |-> StripCR(form.email)]))
                      ELSE jsonFS
         /\ last' = [op |-> "saveAbout", err |-> fault # NoFault, fault |-> fault]
         /\ faults' = faults + Count(fault)
    /\ snap' = NoSnap
    /\ edits' = edits + 1
    /\ UNCHANGED <<wavFS, m4aFS, distFS, listing, pc, inflight, wavDir>>

\* what a user may put in place of a singleton document by hand
SingletonEdits(name) ==
    { Garbage,
      IF name = "settings.json" THEN MarshalSettings([Domain |-> "https://example.org"])
      ELSE MarshalAbout([Content |-> "by hand", Email |-> ""]) }

\* settings.json or about.json is written outside the program
EditSingleton ==
    /\ pc # "inited"
    /\ edits < MaxEdits
    /\ \E name \in specialJsonFiles :
         \E content \in SingletonEdits(name) :
            jsonFS' = Put(jsonFS, name, content)
    /\ last' = [op |-> "env", err |-> FALSE]
    /\ snap' = NoSnap
    /\ edits' = edits + 1
    /\ UNCHANGED <<wavFS, m4aFS, distFS, listing, pc, faults, inflight, wavDir>>

Next ==
    \/ InitAudioData
    \/ SyncAudioData
    \/ RunGeneration
    \/ DeleteHandler
    \/ SaveHandler
    \/ SaveFolderHandler
    \/ SaveAboutHandler
    \/ RemoveSource
    \/ LoseSource
    \/ ExternalEdit
    \/ EditSingleton
    \/ GenClean
    \/ GenLoad
    \/ GenStage
    \/ GenIndex
    \/ GenSite

Spec == Init /\ [][Next]_vars

\* reconciliation: the startup sequence and generation, with source files
\* removed and documents changed from outside
ScanPaths == {"a.wav", "a.WAV", "a.Wav", "20240315_143000.wav"}

InitScan == InitWith(ScanPaths)

NextScan ==
    \/ InitAudioData
    \/ SyncAudioData
    \/ RunGeneration
    \/ RemoveSource
    \/ ExternalEdit

SpecScan == InitScan /\ [][NextScan]_vars

\* generation: the startup sequence, generation and deletion, with source
\* files removed from outside
GenPaths == {"a.wav", "a.WAV", "d/b.wav", "about.wav"}

InitGen == InitWith(GenPaths)

NextGen ==
    \/ InitAudioData
    \/ SyncAudioData
    \/ RunGeneration
    \/ DeleteHandler
    \/ RemoveSource

SpecGen == InitGen /\ [][NextGen]_vars

\* the singleton documents: settings.json and about.json written by the
\* about form or by hand, then generation
SitePaths == {"a.wav", "d/b.wav"}

InitSite == InitWith(SitePaths)

NextSite ==
    \/ InitAudioData
    \/ SyncAudioData
    \/ RunGeneration
    \/ SaveAboutHandler
    \/ EditSingleton

SpecSite == InitSite /\ [][NextSite]_vars

\* the folder form: records at the root of the source tree and in folders
FolderPaths == {"clip.wav", "old/clip.wav", "new/clip.wav"}

InitFolder == InitWith(FolderPaths)

NextFolder ==
    \/ InitAudioData
    \/ SyncAudioData
    \/ RunGeneration
    \/ SaveFolderHandler

SpecFolder == InitFolder /\ [][NextFolder]_vars

\* two generation requests at a time
RacePaths == {"a.wav", "d/b.wav"}

InitRace == InitWith(RacePaths)

NextRace ==
    \/ InitAudioData
    \/ SyncAudioData
    \/ GenClean
    \/ GenLoad
    \/ GenStage
    \/ GenIndex
    \/ GenSite

SpecRace == InitRace /\ [][NextRace]_vars

\* date tokens: names with a valid token, with digits in the place of a
\* token that are no date or no time, and without token
TokenPaths == {"20240315_143000.wav", "20241345_143000.wav", "240230_143000.wav",
               "a.wav"}

InitToken == InitWith(TokenPaths)

NextToken ==
    \/ InitAudioData
    \/ SyncAudioData
    \/ RunGeneration
    \/ RemoveSource

SpecToken == InitToken /\ [][NextToken]_vars

\* editing: a record in a folder, renamed into another folder and back
SavePaths == {"old/clip.wav", "new/clip.wav", "old/clip.WAV"}

InitSave == InitWith(SavePaths)

NextSave ==
    \/ InitAudioData
    \/ SyncAudioData
    \/ RunGeneration
    \/ DeleteHandler
    \/ SaveHandler
    \/ SaveFolderHandler

SpecSave == InitSave /\ [][NextSave]_vars

\* deletion: a record at the root and one in a folder, with the source
\* directory given as data/wav or as ./data/wav
DeletePaths == {"a.wav", "d/b.wav"}

WavPathFlags == {"data/wav", "./data/wav"}

InitDelete == InitTreesIn(SourceTrees(DeletePaths), WavPathFlags)

NextDelete ==
    \/ InitAudioData
    \/ SyncAudioData
    \/ RunGeneration
    \/ DeleteHandler

SpecDelete == InitDelete /\ [][NextDelete]_vars

\* renaming: a record whose source file may have been taken away after it
\* was transcoded, renamed into another folder
RenamePaths == {"old/clip.wav", "new/clip.wav"}

InitRename == InitWith(RenamePaths)

NextRename ==
    \/ InitAudioData
    \/ SyncAudioData
    \/ RunGeneration
    \/ LoseSource
    \/ SaveHandler

SpecRename == InitRename /\ [][NextRename]_vars

\* ordering: three records, two of them with the same record date, and
\* source files removed from outside
OrderPaths == {"a.wav", "d/b.wav", "20240315_143000.wav"}

InitOrder == InitTrees({ [p \in S |-> SourceFile(p)] : S \in SUBSET OrderPaths })

NextOrder ==
    \/ InitAudioData
    \/ SyncAudioData
    \/ RunGeneration
    \/ RemoveSource

SpecOrder == InitOrder /\ [][NextOrder]_vars

(***************************************************************************)
(* Properties                                                              *)
(***************************************************************************)
\* a document outside the filename denylist
NonSingleton(d) == ~isSpecialJsonFile(Base(d))

\* some source file accepted by the forward scan has d as its document path
HasSource(wav, d) == \E p \in WavFilesFound(wav) : JsonRelPath(p) = d

\* the document of source file p is parsable and names p as its source
DocumentOf(json, p) ==
    /\ JsonRelPath(p) \in DOMAIN json
    /\ json[JsonRelPath(p)].valid
    /\ json[JsonRelPath(p)].meta.SourceFilename = p

\* the per-record events of the last generation run
Events == IF last.op = "gen" THEN { last.log[i] : i \in DOMAIN last.log } ELSE {}

\* the audio files staged in the publish tree
StagedAudio == { f \in distFS : HasPrefix(f, "assets/audio/") }

\* C1: a run of initAudioData that returns without error keeps every
\* document outside the denylist that has a source file accepted by the
\* forward scan, or a cache file.
C1_OrphanPreservation ==
    [][(last'.op = "init" /\ ~last'.err) =>
         \A d \in DOMAIN jsonFS :
            (NonSingleton(d) /\ (HasSource(wavFS, d) \/ m4aCacheExists(m4aFS, d)))
               => d \in DOMAIN jsonFS']_vars

\* C2: after a run of initAudioData that returns without error and in which
\* no removal fails, every remaining document outside the denylist has a
\* source file or a cache file.
C2_OrphanDeletion ==
    (last.op = "init" /\ ~last.err /\ last.fault.kind # "remove") =>
        \A d \in DOMAIN jsonFS :
            NonSingleton(d) => (HasSource(wavFS, d) \/ m4aCacheExists(m4aFS, d))

\* a run that swept a document whose source file is gone
C2_Witness ==
    /\ last.op = "init" /\ ~last.err /\ last.fault = NoFault
    /\ \E d \in last.orphans : ~HasSource(wavFS, d) /\ d \notin DOMAIN jsonFS

\* C3: after a run of initAudioData that returns without error, every source
\* file the forward scan accepts has a document at its document path, and
\* the document names the file as its source.
C3_StoreAgreement ==
    (last.op = "init" /\ ~last.err) =>
        \A p \in WavFilesFound(wavFS) : DocumentOf(jsonFS, p)

\* C4: a second startup (initAudioData, then syncAudioData) with nothing
\* changed since the first and no failing step in either leaves every
\* document as the first startup left it.
C4_Idempotence ==
    (last.op = "sync" /\ last.prev.valid) => jsonFS = last.prev.json

\* a second startup over a record whose file name carries a time
C4_Witness ==
    /\ last.op = "sync" /\ last.prev.valid
    /\ "20240315_143000.json" \in DOMAIN jsonFS

\* C5: after the startup sequence, the record date of a source file is the
\* time in its name when the name has one, else the file's birth time.
C5_FilenameTimestampPrecedence ==
    (last.op = "sync" /\ last.fault = NoFault) =>
        \A p \in WavFilesFound(wavFS) :
            DocumentOf(jsonFS, p) =>
                jsonFS[JsonRelPath(p)].meta.RecordDate
                    = ResolveRecordDate(Base(p), wavFS[p])

C7_CacheFreshness ==
    \A e \in Events :
        e.wavExists => (e.transcode <=> (~e.cacheExists \/ e.stale))

\* one run re-encodes a stale cache and reuses a cache as old as its source
C7_Witness ==
    \E e, f \in Events :
        /\ e.wavExists /\ e.cacheExists /\ e.stale /\ e.transcode
        /\ f.wavExists /\ f.cacheExists /\ ~f.stale /\ ~f.transcode

\* C8 as stated: a record met without source file and without cache file is
\* not in the listing, and its document is gone after the run.
C8_GenerationDropout ==
    \A e \in Events :
        (~e.wavExists /\ ~e.cacheExists) =>
            /\ \A i \in DOMAIN listing : listing[i].SourceFilename # e.src
            /\ JsonRelPath(e.src) \notin DOMAIN jsonFS

\* C8 amended: such a record is not in the listing, and its document is gone
\* after the run unless removing it failed.
C8_DropoutUnlessRemoveFails ==
    \A e \in Events :
        (~e.wavExists /\ ~e.cacheExists) =>
            /\ \A i \in DOMAIN listing : listing[i].SourceFilename # e.src
            /\ \/ JsonRelPath(e.src) \notin DOMAIN jsonFS
               \/ Hit(last.fault, e.src, "remove")

\* a run dropped a record and removed its document
C8_Witness ==
    \E e \in Events :
        /\ e.outcome = "dropped"
        /\ JsonRelPath(e.src) \notin DOMAIN jsonFS

\* C9: after a generation run that returns success, the staged audio files
\* are exactly the compressed paths of the records in the listing.
C9_StagedEqualsListing ==
    (last.op = "gen" /\ ~last.err) =>
        StagedAudio = { listing[i].CompressedAudioPath : i \in DOMAIN listing }

\* C10: a generation run that follows a successful startup and in which no
\* step fails lists every source file of the source tree exactly once.
C10_EndToEndPublication ==
    [][(last.op = "sync" /\ last'.op = "gen" /\ ~last'.err /\ last'.fault = NoFault) =>
         \A p \in WavFilesFound(wavFS') :
            Cardinality({ i \in DOMAIN listing' : listing'[i].SourceFilename = p }) = 1]_vars

\* C11: the listing is in descending order of record date: no entry comes
\* before an entry with a later record date, whatever records the run
\* dropped.
C11_ListingDescending ==
    \A i, j \in DOMAIN listing :
        i < j => ~(listing[i].RecordDate < listing[j].RecordDate)

\* a run dropped a record and listed two records with different record dates
C11_Witness ==
    /\ \E e \in Events : e.outcome = "dropped"
    /\ \E i, j \in DOMAIN listing : listing[i].RecordDate # listing[j].RecordDate

\* what a generation run without any failure makes of the stores, with the
\* records arranged as flat and the clock at t
Unfailing(flat, t) ==
    GenLoop([json |-> jsonFS, m4a |-> m4aFS, staged |-> {}, out |-> << >>, log |-> << >>],
            wavFS, flat, 1, NoFault, t)

\* the records of a list, or the events of a log, other than those of source r
Others(seq, r) == SelectSeq(seq, LAMBDA m : m.SourceFilename # r)

OtherEvents(seq, r) == SelectSeq(seq, LAMBDA e : e.src # r)

\* a function without the key k
Without(f, k) == [x \in DOMAIN f \ {k} |-> f[x]]

\* transcoding or staging failed for source r in the run that wrote log
FailedIn(log, r) ==
    \E k \in DOMAIN log :
        log[k].src = r /\ log[k].outcome \in {"transcodeFailed", "stageFailed"}

\* C12: when transcoding or staging fails for a record, the run returns no
\* error, the record is not listed, its document is still there, and the
\* documents, and the listing, the cache files, the staged files and the
\* events of all other records, are those of a run in which nothing fails.
C12_FailureIsolation ==
    [][(last'.op = "gen" /\ FailedIn(last'.log, last'.fault.rec)) =>
         /\ ~last'.err
         /\ \A k \in DOMAIN listing' : listing'[k].SourceFilename # last'.fault.rec
         /\ JsonRelPath(last'.fault.rec) \in DOMAIN jsonFS'
         /\ \E flat \in SortedArrangements(LoadAllMetadata(jsonFS)), t \in Clock :
              \E ok \in {Unfailing(flat, t)} :
                /\ listing' = Others(ok.out, last'.fault.rec)
                /\ jsonFS' = ok.json
                /\ Without(m4aFS', M4aRelPath(last'.fault.rec))
                     = Without(ok.m4a, M4aRelPath(last'.fault.rec))
                /\ distFS' \ {CompressedPath(last'.fault.rec)}
                     = (ok.staged \cup SiteFiles) \ {CompressedPath(last'.fault.rec)}
                /\ OtherEvents(last'.log, last'.fault.rec) = OtherEvents(ok.log, last'.fault.rec)
    ]_vars

\* transcoding or staging failed for the first of three records and the two
\* records after it are listed, one of them freshly transcoded
C12_Witness ==
    /\ last.op = "gen"
    /\ FailedIn(last.log, last.fault.rec)
    /\ Len(last.log) = 3
    /\ last.log[1].src = last.fault.rec
    /\ Len(listing) = 2
    /\ \E e \in Events : e.transcode /\ e.outcome = "published"

\* the source file, the document and the cache file of source p all exist,
\* and the document names p and the published path derived from p
AllAt(wav, json, m4a, p) ==
    /\ p \in DOMAIN wav
    /\ DocumentOf(json, p)
    /\ json[JsonRelPath(p)].meta.CompressedAudioPath = CompressedPath(p)
    /\ M4aRelPath(p) \in DOMAIN m4a

\* none of the three paths of source p is occupied
NoneAt(wav, json, m4a, p) ==
    /\ p \notin DOMAIN wav
    /\ JsonRelPath(p) \notin DOMAIN json
    /\ M4aRelPath(p) \notin DOMAIN m4a

\* C13: a save request that renames a record whose three files exist to a
\* path whose three target paths are free, with no failure of the file
\* system, leaves the three files at the new paths and none at the old, and
\* the document names the new source path and the new published path.
C13_RenameMovesAll ==
    [][(/\ last'.op = "save"
        /\ last'.fault = NoFault
        /\ last'.new # last'.old
        /\ AllAt(wavFS, jsonFS, m4aFS, last'.old)
        /\ NoneAt(wavFS, jsonFS, m4aFS, last'.new)) =>
         /\ AllAt(wavFS', jsonFS', m4aFS', last'.new)
         /\ NoneAt(wavFS', jsonFS', m4aFS', last'.old)
    ]_vars

\* C14: after a forward scan, any two distinct source paths the scan
\* accepted have distinct document paths and distinct cache paths.
C14_InjectiveDerivation ==
    last.op = "init" =>
        \A p, q \in WavFilesFound(wavFS) :
            p # q => /\ JsonRelPath(p) # JsonRelPath(q)
                     /\ M4aRelPath(p) # M4aRelPath(q)

\* the document at path d is derived from the source path it names: d is
\* that path with the extension swapped for .json, and the published path
\* is the assets-audio path of it with the extension swapped for .m4a
Derived(json, d) ==
    /\ d = JsonRelPath(json[d].meta.SourceFilename)
    /\ json[d].meta.CompressedAudioPath = CompressedPath(json[d].meta.SourceFilename)

\* C15: in every state reached by startup scans, time syncs, generations,
\* saves, folder saves and deletes from an empty document tree, every
\* parsable document outside the special ones is at the document path of
\* the source path it names and holds the published path of that source
\* path.
C15_DocumentDerivedFromSource ==
    \A d \in DOMAIN jsonFS :
        (NonSingleton(d) /\ jsonFS[d].valid) => Derived(jsonFS, d)

\* C16: when the startup sequence has run on a tree holding
\* 20240315_143000.wav, with no document before, no failure and no change
\* from outside, the document of that file has the record date
\* 2024-03-15T14:30:00, the title 20240315_143000 and the published path
\* assets/audio/20240315_143000.m4a.
C16_NewFileScenario ==
    (/\ last.op = "sync" /\ faults = 0 /\ edits = 0
     /\ "20240315_143000.wav" \in DOMAIN wavFS) =>
        /\ DocumentOf(jsonFS, "20240315_143000.wav")
        /\ jsonFS["20240315_143000.json"].meta.RecordDate = Date(2024, 3, 15, 14, 30, 0)
        /\ jsonFS["20240315_143000.json"].meta.Title = "20240315_143000"
        /\ jsonFS["20240315_143000.json"].meta.CompressedAudioPath
             = "assets/audio/20240315_143000.m4a"

\* the document of source file q is the same in json1 and json2
SameDocument(json1, json2, q) ==
    IF JsonRelPath(q) \in DOMAIN json1
    THEN JsonRelPath(q) \in DOMAIN json2 /\ json2[JsonRelPath(q)] = json1[JsonRelPath(q)]
    ELSE JsonRelPath(q) \notin DOMAIN json2

\* C17: when creating the directory or writing the document fails for a
\* source file in Pass A, initAudioData returns an error, the documents of
\* the source files that come later in the walk are not touched, and no
\* document is removed; a run that returns no error removes only documents
\* that have no source among all the source files of the tree.
C17_ScanAbort ==
    [][/\ (last'.op = "init" /\ last'.fault.kind \in {"mkdir", "write"}) =>
            /\ last'.err
            /\ pc' = "down"
            /\ last'.orphans = {}
            /\ DOMAIN jsonFS \subseteq DOMAIN jsonFS'
            /\ \A q \in WavFilesFound(wavFS) :
                  (/\ WalkLess(last'.fault.rec, q)
                   /\ JsonRelPath(q) # JsonRelPath(last'.fault.rec))
                      => SameDocument(jsonFS, jsonFS', q)
       /\ (last'.op = "init" /\ ~last'.err) =>
            \A d \in DOMAIN jsonFS \ DOMAIN jsonFS' :
                ~HasWav(WavFilesFound(wavFS), d)
    ]_vars

\* a run of initAudioData failed in Pass A and a document with neither source
\* nor cache is still there
C17_Witness ==
    /\ last.op = "init" /\ last.err
    /\ last.fault.kind \in {"mkdir", "write"}
    /\ \E d \in Orphans(jsonFS, WavFilesFound(wavFS), m4aFS) : jsonFS[d].valid

\* the files of a scan's list of inspection calls
Probed(probed) == { probed[i] : i \in DOMAIN probed }

\* no accepted source file that the walk visits before p has the document
\* path of p
FirstForDocument(wav, p) ==
    \A q \in WavFilesFound(wav) :
        WalkLess(q, p) => JsonRelPath(q) # JsonRelPath(p)

\* the only accepted source file with the document path of p is p
OnlyForDocument(wav, p) ==
    \A q \in WavFilesFound(wav) : q # p => JsonRelPath(q) # JsonRelPath(p)

\* the stored record of p is absent, unparsable or has the sample rate 0
Uninspected(json, p) ==
    \/ JsonRelPath(p) \notin DOMAIN json
    \/ ~json[JsonRelPath(p)].valid
    \/ json[JsonRelPath(p)].meta.TechInfo.SampleRate = 0

\* C18: when the inspection tool fails for a source file during the scan,
\* the run returns no error and every accepted source file has a parsable
\* document afterwards, unless the sweep of the same run took the document
\* for an orphan; the document of the failing file, when it is new and the
\* file shares its document with no other, has sample rate, bit depth,
\* channel count and duration 0; and a scan that finds a stored sample rate
\* of 0 calls the tool for the file again.
C18_ProbeFailureNotFatal ==
    [][/\ (/\ last'.op = "init"
            /\ last'.fault.kind = "probe"
            /\ last'.fault.rec \in Probed(last'.probed)) =>
            /\ ~last'.err
            /\ \A q \in WavFilesFound(wavFS) :
                  \/ JsonRelPath(q) \in last'.orphans
                  \/ JsonRelPath(q) \in DOMAIN jsonFS' /\ jsonFS'[JsonRelPath(q)].valid
            /\ (/\ OnlyForDocument(wavFS, last'.fault.rec)
                 /\ JsonRelPath(last'.fault.rec) \notin last'.orphans
                 /\ \/ JsonRelPath(last'.fault.rec) \notin DOMAIN jsonFS
                    \/ ~jsonFS[JsonRelPath(last'.fault.rec)].valid) =>
                  /\ DocumentOf(jsonFS', last'.fault.rec)
                  /\ jsonFS'[JsonRelPath(last'.fault.rec)].meta.TechInfo
                       = [SampleRate |-> 0, BitDepth |-> 0, Channels |-> 0]
                  /\ jsonFS'[JsonRelPath(last'.fault.rec)].meta.DurationSeconds = 0
       /\ (last'.op = "init" /\ ~last'.err) =>
            \A p \in WavFilesFound(wavFS) :
                (/\ FirstForDocument(wavFS, p)
                 /\ JsonRelPath(p) \in DOMAIN jsonFS
                 /\ jsonFS[JsonRelPath(p)].valid
                 /\ jsonFS[JsonRelPath(p)].meta.TechInfo.SampleRate = 0)
                    => p \in Probed(last'.probed)
    ]_vars

\* the tool failed for a new file in a scan that returned no error, the
\* document of the file has no technical info and the document of another
\* file has
C18_Witness ==
    /\ last.op = "init" /\ ~last.err
    /\ last.fault.kind = "probe"
    /\ last.fault.rec \in Probed(last.probed)
    /\ DocumentOf(jsonFS, last.fault.rec)
    /\ jsonFS[JsonRelPath(last.fault.rec)].meta.TechInfo.SampleRate = 0
    /\ \E q \in WavFilesFound(wavFS) :
         /\ WalkLess(last.fault.rec, q)
         /\ DocumentOf(jsonFS, q)
         /\ jsonFS[JsonRelPath(q)].meta.TechInfo.SampleRate # 0

\* C20: in a scan the inspection tool is called at most once for a source
\* file, and only for accepted source files; for a file that is the first
\* the walk visits for its document, it is called only when the document is
\* absent, unparsable or has the stored sample rate 0, and in a scan that
\* returns no error it is called in each of these cases.
C20_AmortizedInspection ==
    [][last'.op = "init" =>
         /\ \A i, j \in DOMAIN last'.probed :
               i # j => last'.probed[i] # last'.probed[j]
         /\ Probed(last'.probed) \subseteq WavFilesFound(wavFS)
         /\ \A p \in WavFilesFound(wavFS) :
               FirstForDocument(wavFS, p) =>
                  /\ p \in Probed(last'.probed) => Uninspected(jsonFS, p)
                  /\ (~last'.err /\ Uninspected(jsonFS, p)) => p \in Probed(last'.probed)
    ]_vars

\* a scan without failure called the tool for one file, whose stored record
\* had no sample rate or could not be parsed, and not for another
C20_Witness ==
    /\ last.op = "init" /\ ~last.err /\ last.fault = NoFault
    /\ \E p, q \in WavFilesFound(wavFS) :
         /\ p \in Probed(last.probed)
         /\ q \notin Probed(last.probed)
         /\ JsonRelPath(p) # JsonRelPath(q)
         /\ DocumentOf(jsonFS, p) /\ DocumentOf(jsonFS, q)

\* the file at path d is the same in json1 and json2, or in neither
SameFile(json1, json2, d) ==
    IF d \in DOMAIN json1
    THEN d \in DOMAIN json2 /\ json2[d] = json1[d]
    ELSE d \notin DOMAIN json2

\* C19: a startup scan, a time sync, a generation or a folder save neither
\* creates, rewrites nor removes about.json or settings.json at the root of
\* the document tree, and generation loads neither as a record.
C19_SingletonIsolation ==
    [][last'.op \in {"init", "sync", "gen", "saveFolder"} =>
         /\ \A d \in specialJsonFiles : SameFile(jsonFS, jsonFS', d)
         /\ \A k \in DOMAIN listing' :
               JsonRelPath(listing'[k].SourceFilename) \notin specialJsonFiles
    ]_vars

\* the document at the document path of p exists and cannot be parsed
Unparsable(json, p) ==
    JsonRelPath(p) \in DOMAIN json /\ ~json[JsonRelPath(p)].valid

\* the record a scan makes of source file p anew, with what the inspection
\* tool reports
FreshRecord(meta, p, info) ==
    /\ meta.SourceFilename = p
    /\ meta.Title = TrimSuffix(Base(p), Ext(Base(p)))
    /\ meta.Description = "" /\ meta.Location = ""
    /\ meta.RecordDate = ResolveRecordDate(Base(p), info)
    /\ meta.SourceFileSizeMB = SizeMB(info.size)
    /\ meta.DurationSeconds = info.probe.duration
    /\ meta.TechInfo = [SampleRate |-> info.probe.sampleRate,
                        BitDepth |-> info.probe.bitDepth,
                        Channels |-> info.probe.channels]
    /\ meta.CompressedAudioPath = CompressedPath(p)

\* C21: a scan in which nothing fails returns no error when it finds
\* unparsable documents, and leaves every accepted source file with a
\* parsable document; the document of a source file whose document was
\* unparsable is a new record: the file is inspected, the title is the file
\* name without extension, the record date the resolved one, the size the
\* current one.
C21_UnparsableRecreated ==
    [][(last'.op = "init" /\ last'.fault = NoFault) =>
         /\ ~last'.err
         /\ \A q \in WavFilesFound(wavFS) :
               \/ JsonRelPath(q) \in last'.orphans
               \/ JsonRelPath(q) \in DOMAIN jsonFS' /\ jsonFS'[JsonRelPath(q)].valid
         /\ \A p \in WavFilesFound(wavFS) :
               (/\ Unparsable(jsonFS, p)
                /\ OnlyForDocument(wavFS, p)
                /\ JsonRelPath(p) \notin last'.orphans) =>
                  /\ p \in Probed(last'.probed)
                  /\ FreshRecord(jsonFS'[JsonRelPath(p)].meta, p, wavFS[p])
    ]_vars

\* a scan after the first generation, with no failure so far and a document
\* damaged from outside, has inspected a file again, which it does only for
\* a document it could not parse, and the file has its document
C21_Witness ==
    /\ last.op = "init" /\ ~last.err
    /\ faults = 0 /\ edits = 1 /\ distFS # {}
    /\ \E p \in Probed(last.probed) :
         /\ OnlyForDocument(wavFS, p)
         /\ DocumentOf(jsonFS, p)
         /\ FreshRecord(jsonFS[JsonRelPath(p)].meta, p, wavFS[p])

\* the records without source file whose cache file exists
CacheOnly(json, wav, m4a) ==
    { m \in LoadAllMetadata(json) :
        /\ m.SourceFilename \notin DOMAIN wav
        /\ M4aRelPath(m.SourceFilename) \in DOMAIN m4a }

\* the event of the run that wrote log for source r
EventsOf(log, r) == { log[k] : k \in { i \in DOMAIN log : log[i].src = r } }

\* C22: a document outside the special ones whose cache file exists is
\* still there after initAudioData and after syncAudioData; and generation
\* does not transcode for a record without source file whose cache file
\* exists, leaves the cache file as it is and, unless staging fails for the
\* record or the run ends with an error, lists the record and stages its
\* audio.
C22_CacheOnlyKept ==
    [][/\ last'.op \in {"init", "sync"} =>
            \A d \in DOMAIN jsonFS :
                (NonSingleton(d) /\ m4aCacheExists(m4aFS, d)) => d \in DOMAIN jsonFS'
       /\ (last'.op = "gen" /\ last'.fault.kind # "clean") =>
            \A m \in CacheOnly(jsonFS, wavFS, m4aFS) :
                /\ JsonRelPath(m.SourceFilename) \in DOMAIN jsonFS'
                /\ m4aFS'[M4aRelPath(m.SourceFilename)] = m4aFS[M4aRelPath(m.SourceFilename)]
                /\ \A e \in EventsOf(last'.log, m.SourceFilename) :
                      ~e.transcode /\ e.outcome \in {"published", "stageFailed"}
                /\ (~last'.err /\ ~FailedIn(last'.log, m.SourceFilename)) =>
                      /\ \E k \in DOMAIN listing' :
                            listing'[k].SourceFilename = m.SourceFilename
                      /\ CompressedPath(m.SourceFilename) \in distFS'
    ]_vars

\* a generation has listed and staged a record whose source file is gone
\* and whose cache file exists
C22_Witness ==
    /\ last.op = "gen" /\ ~last.err
    /\ \E k \in DOMAIN listing :
         /\ listing[k].SourceFilename \notin DOMAIN wavFS
         /\ M4aRelPath(listing[k].SourceFilename) \in DOMAIN m4aFS
         /\ CompressedPath(listing[k].SourceFilename) \in distFS
         /\ \E e \in Events :
              /\ e.src = listing[k].SourceFilename
              /\ ~e.wavExists /\ e.cacheExists /\ ~e.transcode

\* the documents initAudioData, run without failure on the stores, removes
\* in its orphan sweep
SweepRemoves(json, wav, m4a) ==
    ScanAndSweep(json, wav, WavFilesFound(wav), m4a, NoFault).orphans

\* the documents of the records for which runGenerationLogic, run on the
\* stores, takes the branch for neither source nor cache
GenerationDrops(json, wav, m4a) ==
    { JsonRelPath(m.SourceFilename) :
        m \in { x \in LoadAllMetadata(json) :
                  /\ x.SourceFilename \notin DOMAIN wav
                  /\ M4aRelPath(x.SourceFilename) \notin DOMAIN m4a } }

\* C23: in every state, the orphan sweep of initAudioData removes a document
\* of the document tree exactly when generation, run on the same state,
\* drops its record and removes the document.
C23_DeletionPointsAgree ==
    \A d \in DOMAIN jsonFS :
        d \in SweepRemoves(jsonFS, wavFS, m4aFS)
            <=> d \in GenerationDrops(jsonFS, wavFS, m4aFS)

\* a singleton that cannot be loaded: the read fails for a reason other than
\* absence, or the file is there and is not JSON
Unloadable(json, name, fault, kind) ==
    \/ Hit(fault, "", kind)
    \/ (name \in DOMAIN json /\ ~json[name].valid)

\* C24: a generation run that gets as far as the singletons ends with an
\* error, before about.html is written, when settings.json or about.json
\* cannot be read or parsed; otherwise it completes, and an absent
\* settings.json or about.json stands for its built-in default value
C24_SingletonLoading ==
    [][(last'.op = "gen" /\ last'.fault.kind \notin {"clean", "index"}) =>
         IF \/ Unloadable(jsonFS, "settings.json", last'.fault, "settings")
            \/ Unloadable(jsonFS, "about.json", last'.fault, "about")
         THEN /\ last'.err
              /\ last'.site.err
              /\ distFS' \cap SiteFiles = {"index.html"}
         ELSE /\ ~last'.err
              /\ SiteFiles \subseteq distFS'
              /\ ("settings.json" \notin DOMAIN jsonFS
                    => last'.site.settings = DefaultSettings)
              /\ ("about.json" \notin DOMAIN jsonFS
                    => last'.site.about = DefaultAbout)]_vars

\* a run completed with the default about content next to a settings.json
\* written by hand
C24_Witness ==
    /\ last.op = "gen"
    /\ ~last.err
    /\ "about.json" \notin DOMAIN jsonFS
    /\ "settings.json" \in DOMAIN jsonFS
    /\ last.site.about = DefaultAbout
    /\ last.site.settings # DefaultSettings
    /\ "about.html" \in distFS
    /\ listing # << >>

\* the records of the group filed under a folder key
Group(json, key) ==
    IF key \in DOMAIN loadAllMetadataGroupedByFolder(json)
    THEN loadAllMetadataGroupedByFolder(json)[key] ELSE {}

\* C25: a folder save for a key of the folder grouping whose writes all
\* succeed gives every record of that group the location of the form and
\* leaves the documents of every other group as they were
C25_FolderBulkEdit ==
    [][(/\ last'.op = "saveFolder"
        /\ last'.path \in DOMAIN loadAllMetadataGroupedByFolder(jsonFS)
        /\ last'.fault = NoFault) =>
         /\ DOMAIN jsonFS' = DOMAIN jsonFS
         /\ \A m \in Group(jsonFS, last'.path) :
                jsonFS'[JsonRelPath(m.SourceFilename)] =
                    Marshal([m EXCEPT !.Location = last'.location])
         /\ \A d \in DOMAIN jsonFS :
                (\A m \in Group(jsonFS, last'.path) : JsonRelPath(m.SourceFilename) # d)
                    => jsonFS'[d] = jsonFS[d]]_vars

\* the stored record of a source path
Stored(json, src) == Unmarshal(json[JsonRelPath(src)]).metadata

\* C26: in a generation run, a record without source file whose cache file
\* exists and whose stored sample rate or duration is 0 has the inspection
\* tool run on the cache file and, when the tool and the write succeed, its
\* document rewritten with the technical info of the cache file; a record
\* without source file whose stored sample rate and duration are not 0 is
\* not inspected and its document stays as it was
C26_CacheBackfill ==
    [][(last'.op = "gen" /\ last'.fault.kind # "clean") =>
         \A i \in DOMAIN last'.log :
            (~last'.log[i].wavExists /\ last'.log[i].cacheExists) =>
                IF \/ Stored(jsonFS, last'.log[i].src).TechInfo.SampleRate = 0
                   \/ Stored(jsonFS, last'.log[i].src).DurationSeconds = 0
                THEN /\ last'.log[i].inspected
                     /\ (last'.fault.rec # last'.log[i].src) =>
                            /\ jsonFS'[JsonRelPath(last'.log[i].src)] =
                                  Marshal(WithTechInfo(Stored(jsonFS, last'.log[i].src),
                                      getAudioTechInfo(m4aFS[M4aRelPath(last'.log[i].src)],
                                                       FALSE)))
                            /\ Stored(jsonFS', last'.log[i].src).TechInfo.SampleRate # 0
                            /\ Stored(jsonFS', last'.log[i].src).DurationSeconds # 0
                ELSE /\ ~last'.log[i].inspected
                     /\ jsonFS'[JsonRelPath(last'.log[i].src)] =
                            jsonFS[JsonRelPath(last'.log[i].src)]]_vars

\* a published record whose source is gone and whose document got its
\* technical info from the cache file in this run
C26_Witness ==
    /\ last.op = "gen"
    /\ ~last.err
    /\ \E i \in DOMAIN last.log :
          /\ last.log[i].inspected
          /\ last.log[i].outcome = "published"
          /\ last.log[i].src \notin DOMAIN wavFS
          /\ Stored(jsonFS, last.log[i].src).TechInfo.SampleRate # 0
          /\ \E k \in DOMAIN listing :
                /\ listing[k].SourceFilename = last.log[i].src
                /\ listing[k].TechInfo.SampleRate # 0

\* no generation request is being worked on
Quiet == \A r \in Requests : ~Active(inflight.run[r])

\* the published listing names a staged audio file that the publish tree
\* does not hold
DanglingListing ==
    \E k \in DOMAIN listing : listing[k].CompressedAudioPath \notin distFS

\* C27: the handlers take no lock, and overlapping generation requests can
\* leave a listing that names an absent audio file (C27_Witness); when no
\* request is in progress and the run that cleaned the publish tree last did
\* not overlap with another, every audio file the listing names is there
C27_OnlyOverlapDangles == (Quiet /\ ~inflight.overlap) => ~DanglingListing

\* two requests that overlapped have both returned without error and the
\* listing names an audio file that is absent from the publish tree
C27_Witness ==
    /\ \A r \in Requests : inflight.run[r].pc = "done" /\ ~inflight.run[r].err
    /\ inflight.overlap
    /\ DanglingListing
    /\ "index.html" \in distFS

\* the listings a generation run without any failure can publish from the
\* stores as they are
Listings ==
    { Unfailing(flat, t).out :
        flat \in SortedArrangements(LoadAllMetadata(jsonFS)), t \in Clock }

\* C28: generation is deterministic: from given documents, source files and
\* cache files a run without failures can publish one sequence of records
\* only, also when several records have the same record date
C28_DeterministicListing == Cardinality(Listings) = 1

\* the record dates the edit form can submit
SubmittedTimes ==
    { FormTime(form).t : form \in { f \in SaveForms({""}) : FormTime(f).ok } }

\* C29: a record date submitted with the edit form survives the startup
\* reconciliation: initAudioData and syncAudioData, run without failures,
\* leave it in the document of a record whose source file is there
C29_SubmittedTimeSurvives ==
    [][(last'.op \in {"init", "sync"} /\ last'.fault = NoFault) =>
         \A d \in DOMAIN jsonFS :
            (/\ jsonFS[d].valid
             /\ jsonFS[d].meta.RecordDate \in SubmittedTimes
             /\ jsonFS[d].meta.SourceFilename \in DOMAIN wavFS) =>
                /\ d \in DOMAIN jsonFS'
                /\ jsonFS'[d].valid
                /\ jsonFS'[d].meta.RecordDate = jsonFS[d].meta.RecordDate]_vars

\* a name with digits in the pattern of a date token that are not a date
\* and a time
InvalidToken(name) == FindString(name) # "" /\ ~parseTimeFromFilename(name).ok

\* C30: a scan that meets a source file without document whose name has the
\* digits of a token that denote no date-time does not fail on it, and the
\* record it creates has the file's creation time as its record date
C30_InvalidTokenFallback ==
    [][(last'.op = "init" /\ last'.fault.kind \notin {"mkdir", "write"}) =>
         /\ (\E p \in WavFilesFound(wavFS) : InvalidToken(Base(p))) => ~last'.err
         /\ \A p \in WavFilesFound(wavFS) :
                (InvalidToken(Base(p)) /\ JsonRelPath(p) \notin DOMAIN jsonFS) =>
                    /\ JsonRelPath(p) \in DOMAIN jsonFS'
                    /\ jsonFS'[JsonRelPath(p)].valid
                    /\ jsonFS'[JsonRelPath(p)].meta.SourceFilename = p
                    /\ jsonFS'[JsonRelPath(p)].meta.RecordDate = GetBirthTime(wavFS[p])]_vars

\* a scan has made the record of a file with an invalid token next to the
\* record of a file whose token is its record date
C30_Witness ==
    /\ last.op = "init"
    /\ ~last.err
    /\ \E p \in DOMAIN wavFS :
          /\ InvalidToken(Base(p))
          /\ JsonRelPath(p) \in DOMAIN jsonFS
          /\ jsonFS[JsonRelPath(p)].valid
          /\ jsonFS[JsonRelPath(p)].meta.RecordDate = GetBirthTime(wavFS[p])
    /\ \E q \in DOMAIN wavFS :
          /\ parseTimeFromFilename(Base(q)).ok
          /\ JsonRelPath(q) \in DOMAIN jsonFS
          /\ jsonFS[JsonRelPath(q)].valid
          /\ jsonFS[JsonRelPath(q)].meta.RecordDate = parseTimeFromFilename(Base(q)).t
          /\ jsonFS[JsonRelPath(q)].meta.RecordDate # GetBirthTime(wavFS[q])

\* C31: a syncAudioData run that follows a run without failures, with no
\* file changed in between, writes no document
C31_SecondSyncWritesNothing ==
    (last.op = "sync" /\ last.fault = NoFault) =>
        SyncTreesWrites(jsonFS, wavFS, m4aFS, NoFault) = << >>

(***************************************************************************)
(* C32: the frame of the reconciliation scans                              *)
(***************************************************************************)
\* the text a user has given a record
TextOf(content) ==
    <<Unmarshal(content).metadata.Title, Unmarshal(content).metadata.Description,
      Unmarshal(content).metadata.Location>>

\* the same text without carriage returns
WithoutCR(text) == <<StripCR(text[1]), StripCR(text[2]), StripCR(text[3])>>

UserFields(content) ==
    <<Unmarshal(content).metadata.Title, Unmarshal(content).metadata.Description,
      Unmarshal(content).metadata.Location, Unmarshal(content).metadata.RecordDate,
      Unmarshal(content).metadata.SourceFilename,
      Unmarshal(content).metadata.CompressedFileSizeMB,
      Unmarshal(content).metadata.CompressedAudioPath,
      Unmarshal(content).metadata.SourceFileSizeMB>>

\* the record of a parsable document has a source file, or a cache file
Live(content, fs) ==
    /\ ~Unmarshal(content).err
    /\ Unmarshal(content).metadata.SourceFilename \in DOMAIN fs
Cached(content, fs) ==
    /\ ~Unmarshal(content).err
    /\ M4aRelPath(Unmarshal(content).metadata.SourceFilename) \in DOMAIN fs

\* C33: a generation run leaves the source tree as it is and creates no
\* document; a document it removes is that of a record with neither source
\* nor cache; a document it changes is that of a record with a cache and no
\* source, and title, description, location, record date, source path and
\* the stored sizes and compressed path stay as they were; so the document
\* of a record with a source file is the same after the run, whatever
\* compressed size the listing shows.
C33_GenerationFrame ==
    [][(last'.op = "gen") =>
         /\ wavFS' = wavFS
         /\ DOMAIN jsonFS' \subseteq DOMAIN jsonFS
         /\ \A d \in DOMAIN jsonFS :
               /\ d \notin DOMAIN jsonFS' =>
                     (~Unmarshal(jsonFS[d]).err
                      /\ ~Live(jsonFS[d], wavFS) /\ ~Cached(jsonFS[d], m4aFS))
               /\ (d \in DOMAIN jsonFS' /\ jsonFS'[d] # jsonFS[d]) =>
                     /\ ~Live(jsonFS[d], wavFS) /\ Cached(jsonFS[d], m4aFS)
                     /\ ~Unmarshal(jsonFS'[d]).err
                     /\ UserFields(jsonFS'[d]) = UserFields(jsonFS[d])]_vars

\* a run has listed a record that has a source file with the size of its
\* cache, and the record's document still has no compressed size
C33_Witness ==
    /\ last.op = "gen" /\ ~last.err
    /\ \E i \in DOMAIN listing :
          /\ listing[i].SourceFilename \in DOMAIN wavFS
          /\ listing[i].CompressedFileSizeMB > 0
          /\ JsonRelPath(listing[i].SourceFilename) \in DOMAIN jsonFS
          /\ Unmarshal(jsonFS[JsonRelPath(listing[i].SourceFilename)]).metadata.CompressedFileSizeMB = 0

(***************************************************************************)
(* C34: a rename that fails on the source file or the document             *)
(***************************************************************************)
\* C34: a save request answered with an error because of the renaming (500
\* from a rename of the source file or the document, 404 because no
\* document is found after the renames) leaves the source tree, the document
\* tree and the cache tree as they were before the request.
C34_RenameFailureAtomic ==
    [][(/\ last'.op = "save"
        /\ last'.new # last'.old
        /\ last'.status \in {500, 404}
        /\ last'.fault.kind # "write") =>
          /\ wavFS' = wavFS
          /\ jsonFS' = jsonFS
          /\ m4aFS' = m4aFS]_vars

(***************************************************************************)
(* C35: a rename and the files at its target paths                         *)
(***************************************************************************)
\* the file at path, if there is one, is the same in both trees
Untouched(before, after, path) ==
    path \in DOMAIN before => (path \in DOMAIN after /\ after[path] = before[path])

C36_Delete ==
    [][(last'.op = "delete" /\ last'.fault = NoFault) =>
          /\ wavFS' = Drop(wavFS, {last'.rec})
          /\ jsonFS' = Drop(jsonFS, {JsonRelPath(last'.rec)})
          /\ m4aFS' = Drop(m4aFS, {M4aRelPath(last'.rec)})
          /\ ~last'.err
          /\ \A x \in last'.removed :
                /\ x.dir # "."
                /\ x.dir = Dir(last'.rec)]_vars

(***************************************************************************)
(* C37: a rename followed by a startup and a generation                    *)
(***************************************************************************)
\* the documents that name one of the source paths
Naming(json, paths) ==
    { d \in DOMAIN json :
        ~Unmarshal(json[d]).err /\ Unmarshal(json[d]).metadata.SourceFilename \in paths }

\* the number of entries for a source path in the listing a generation
\* without failures makes from the records in the order flat
Published(json, wav, m4a, flat, t, src) ==
    Cardinality({ i \in DOMAIN GenLoop([json |-> json, m4a |-> m4a, staged |-> {},
                                         out |-> << >>, log |-> << >>],
                                        wav, flat, 1, NoFault, t).out :
                    GenLoop([json |-> json, m4a |-> m4a, staged |-> {},
                             out |-> << >>, log |-> << >>],
                            wav, flat, 1, NoFault, t).out[i].SourceFilename = src })

\* C37: after a save request that renamed a record and was answered with a
\* redirect, and a run of initAudioData after it without failure, the only
\* document that names the record is the one at the new document path, no
\* document is at the old document path, the document has the title, the
\* description and the location of the form without carriage returns, and
\* the time sync and a generation run from there list the record once.  The
\* record has its source file, or its cache file at the old or the new cache
\* path, and no other source file shares the old or the new document path.
C37_RenameThenReconcile ==
    (/\ last.op = "init" /\ ~last.err /\ last.fault = NoFault
     /\ last.follows.renamed
     /\ \/ last.follows.new \in DOMAIN wavFS
        \/ M4aRelPath(last.follows.new) \in DOMAIN m4aFS
        \/ M4aRelPath(last.follows.old) \in DOMAIN m4aFS
     /\ ~\E f \in DOMAIN wavFS :
            /\ f # last.follows.new
            /\ JsonRelPath(f) \in {JsonRelPath(last.follows.old),
                                    JsonRelPath(last.follows.new)}) =>
        /\ Naming(jsonFS, {last.follows.old, last.follows.new})
              = {JsonRelPath(last.follows.new)}
        /\ JsonRelPath(last.follows.old) \notin DOMAIN jsonFS
        /\ Unmarshal(jsonFS[JsonRelPath(last.follows.new)]).metadata.SourceFilename
              = last.follows.new
        /\ TextOf(jsonFS[JsonRelPath(last.follows.new)]) = WithoutCR(last.follows.text)
        /\ \A flat \in SortedArrangements(
                            LoadAllMetadata(SyncTrees(jsonFS, wavFS, m4aFS, NoFault))),
                 t \in Clock :
               Published(SyncTrees(jsonFS, wavFS, m4aFS, NoFault), wavFS, m4aFS, flat, t,
                         last.follows.new) = 1

(***************************************************************************)
(* C38: a generation run that ends with an error                           *)
(***************************************************************************)
\* C38: a generation run that finds a complete site in the publish tree and
\* returns an error leaves the publish tree, with the listing its index page
\* was rendered from, as the run found it.
C38_FailedGenerationKeepsSite ==
    [][(last'.op = "gen" /\ last'.err /\ SiteFiles \subseteq distFS) =>
          /\ distFS' = distFS
          /\ listing' = listing]_vars
====
